---- MODULE Spec2Model ----
(***************************************************************************)
(* Stack stores of zenml: the shared register/deregister algorithms of     *)
(* BaseStackStore over the primitives of LocalStackStore (index document   *)
(* plus one payload file per component) and SqlStackStore (tables          *)
(* zenstack, zenstackcomponent, zenstackdefinition, zenconfig).            *)
(*                                                                         *)
(* Every store operation is a pure operator from a store to its outcomes   *)
(* (the store afterwards and the result or the exception raised); the      *)
(* actions apply one operation to the store of the backend under test and  *)
(* record the call in `last`.                                              *)
(*                                                                         *)
(* The global configuration (GlobalConfig) is modelled the same way over   *)
(* `config_files` (the documents on disk, per directory) and `configs`     *)
(* (the instances in memory).  `global_repository` tells whether the       *)
(* process holds the Repository singleton, and `instances` holds the       *)
(* in-memory models of the LocalStackStore instances that are open on one  *)
(* directory at the same time.                                             *)
(***************************************************************************)
EXTENDS Integers, Sequences, FiniteSets, TLC

VARIABLES backend, local, sql, last, config_files, configs,
          global_repository, instances

vars ==
    <<backend, local, sql, last, config_files, configs, global_repository,
      instances>>

None == "None"

Backends == {"local", "sql"}

StackNames == {"s1", "s2"}

ComponentTypes == {"orchestrator", "artifact_store", "metadata_store"}

\* Longest component list of a StackWrapper handed to register_stack.
MaxStackComponents == 2

EmptyFn == [x \in {} |-> None]

Put(f, k, v) == [x \in (DOMAIN f) \cup {k} |-> IF x = k THEN v ELSE f[x]]

Del(f, k) == [x \in (DOMAIN f) \ {k} |-> f[x]]

(***************************************************************************)
(* Component configurations.  The payload is a document that embeds the    *)
(* identity token; `config` is that document base64-encoded.               *)
(***************************************************************************)
B64Encode(doc) == <<"b64", doc>>

B64Decode(bytes) == bytes[2]

ComponentConfiguration(t, n, u, f, body) ==
    [type |-> t, name |-> n, uuid |-> u, flavor |-> f,
     config |-> B64Encode([uuid |-> u, body |-> body])]

\* The component configurations callers pass in: the orchestrator "c1" in
\* three variants (the same token with another flavor and payload, and a
\* different token), and an artifact store of the same name.
Catalog ==
    { ComponentConfiguration("orchestrator", "c1", "U1", "f1", "p1"),
      ComponentConfiguration("orchestrator", "c1", "U1", "f2", "p2"),
      ComponentConfiguration("orchestrator", "c1", "U2", "f1", "p1"),
      ComponentConfiguration("artifact_store", "c1", "U3", "f1", "p1") }

ComponentNames == { c.name : c \in Catalog }

DistinctTypes(cs) ==
    \A i, j \in 1..Len(cs) : i # j => cs[i].type # cs[j].type

ComponentLists ==
    { cs \in UNION { [1..k -> Catalog] : k \in 0..MaxStackComponents } :
        DistinctTypes(cs) }

StackWrappers == [name : StackNames, components : ComponentLists]

(***************************************************************************)
(* Initial stores.                                                         *)
(***************************************************************************)
EmptyStore ==
    [active_stack_name |-> None,
     stacks            |-> EmptyFn,
     stack_components  |-> [t \in ComponentTypes |-> EmptyFn]]

\* LocalStackStore.__init__ on a directory without config.yaml.
\* `disk` is the index document config.yaml as a sequence: empty while the
\* file does not exist, else the one document.
LocalInit == [mem |-> EmptyStore, disk |-> << >>, files |-> EmptyFn]

\* SqlStackStore.__init__ on a fresh database: empty tables and the one
\* ZenConfig row.
SqlInit ==
    [zenstack           |-> {},
     zenstackcomponent  |-> {},
     zenstackdefinition |-> {},
     zenconfig          |-> [active_stack |-> None]]

St == [backend |-> backend, local |-> local, sql |-> sql]

WithLocal(st, l) == [st EXCEPT !.local = l]

WithSql(st, db) == [st EXCEPT !.sql = db]

WriteStoreSkipped(l) == l

\* LocalStackStore._write_store: the whole in-memory model replaces the index.
WriteStore(l) == [l EXCEPT !.disk = <<l.mem>>]

(***************************************************************************)
(* Reads.                                                                  *)
(***************************************************************************)
\* active_stack_name: RuntimeError when no active stack is configured.
ActiveStackNameUnset(st) == [res |-> "RuntimeError"]

\* active_stack_name of either backend: RuntimeError while none is set.
ActiveStackName(st) ==
    LET a == IF st.backend = "local"
             THEN st.local.mem.active_stack_name
             ELSE st.sql.zenconfig.active_stack
    IN  IF a = None THEN [res |-> "RuntimeError"]
        ELSE [res |-> "ok", name |-> a]

\* StackConfiguration.contains_component
ContainsComponent(cfg, t, n) == cfg[t] = n

\* The rows of SqlStackStore.get_stack_configuration's select: the first
\* where-clause compares ZenStackDefinition.component_type with itself, so a
\* definition row joins every component that has its name, of any type.
SqlJoin(db, name) ==
    { dc \in db.zenstackdefinition \X db.zenstackcomponent :
        /\ dc[1].component_type = dc[1].component_type
        /\ dc[1].component_name = dc[2].name
        /\ dc[1].stack_name = name }

\* params = {component.component_type: component.name for ...}: for a type
\* that several joined rows carry, the row the database returns last wins;
\* the select has no ORDER BY, so any of them can be the last.
SqlParams(db, name) ==
    LET cand(t) == { dc[2].name : dc \in { x \in SqlJoin(db, name) :
                                            x[2].component_type = t } }
        names == { c.name : c \in db.zenstackcomponent }
    IN  { cfg \in [ComponentTypes -> names \cup {None}] :
            \A t \in ComponentTypes :
                IF cand(t) = {} THEN cfg[t] = None ELSE cfg[t] \in cand(t) }

\* get_stack_configuration: the outcomes a read can have.
GetStackConfiguration(st, name) ==
    IF st.backend = "local"
    THEN IF name \notin DOMAIN st.local.mem.stacks
         THEN { [res |-> "KeyError"] }
         ELSE { [res |-> "ok", cfg |-> st.local.mem.stacks[name]] }
    ELSE IF \A s \in st.sql.zenstack : s.name # name
         THEN { [res |-> "KeyError"] }
         ELSE { [res |-> "ok", cfg |-> c] : c \in SqlParams(st.sql, name) }

\* SqlStackStore.stack_names
SqlStackNames(db) == { s.name : s \in db.zenstack }

\* stack_configurations: the dictionaries a read can return.
StackConfigurations(st) ==
    IF st.backend = "local"
    THEN { st.local.mem.stacks }
    ELSE { f \in [SqlStackNames(st.sql) ->
                    UNION { SqlParams(st.sql, n) :
                              n \in SqlStackNames(st.sql) }] :
             \A n \in SqlStackNames(st.sql) : f[n] \in SqlParams(st.sql, n) }

\* _get_component_flavor_and_config
GetComponentFlavorAndConfig(st, t, n) ==
    IF st.backend = "local"
    THEN LET components == st.local.mem.stack_components[t]
         IN  IF n \notin DOMAIN components THEN [res |-> "KeyError"]
             ELSE IF <<t, n>> \notin DOMAIN st.local.files
                  THEN [res |-> "FileNotFoundError"]
                  ELSE [res    |-> "ok",
                        flavor |-> components[n],
                        config |-> B64Encode(st.local.files[<<t, n>>])]
    ELSE LET rows == { c \in st.sql.zenstackcomponent :
                         c.component_type = t /\ c.name = n }
         IN  IF rows = {} THEN [res |-> "KeyError"]
             ELSE LET c == CHOOSE r \in rows : TRUE
                  IN  [res    |-> "ok",
                       flavor |-> c.component_flavor,
                       config |-> c.configuration]

GetStackComponentUndecoded(st, t, n) ==
    LET r == GetComponentFlavorAndConfig(st, t, n)
    IN  IF r.res # "ok" THEN [res |-> r.res]
        ELSE [res |-> "ok",
              component |-> [type   |-> t,
                             flavor |-> r.flavor,
                             name   |-> n,
                             uuid   |-> None,
                             config |-> r.config]]

\* BaseStackStore.get_stack_component: decodes the payload for its token.
GetStackComponent(st, t, n) ==
    LET r == GetComponentFlavorAndConfig(st, t, n)
    IN  IF r.res # "ok" THEN [res |-> r.res]
        ELSE [res |-> "ok",
              component |-> [type   |-> t,
                             flavor |-> r.flavor,
                             name   |-> n,
                             uuid   |-> B64Decode(r.config).uuid,
                             config |-> r.config]]

\* BaseStackStore._stack_from_configuration: every named component is fetched.
StackFromConfiguration(st, cfg) ==
    LET bad == { t \in ComponentTypes :
                   cfg[t] # None /\ GetStackComponent(st, t, cfg[t]).res # "ok" }
    IN  IF bad = {} THEN "ok"
        ELSE GetStackComponent(st, CHOOSE t \in bad : TRUE,
                               cfg[CHOOSE t \in bad : TRUE]).res

GetStackAlwaysMissing(st, name) == { "KeyError" }

\* BaseStackStore.get_stack: the results a call can have.
GetStack(st, name) ==
    { IF c.res # "ok" THEN c.res ELSE StackFromConfiguration(st, c.cfg) :
        c \in GetStackConfiguration(st, name) }

(***************************************************************************)
(* Backend primitives that write.                                          *)
(***************************************************************************)
LocalRegisterStackComponentOverwrite(st, component) ==
    LET l == st.local
        l2 == [l EXCEPT
                 !.files = Put(@, <<component.type, component.name>>,
                               B64Decode(component.config)),
                 !.mem.stack_components[component.type] =
                     Put(@, component.name, component.flavor)]
    IN  [st |-> WithLocal(st, WriteStore(l2)), res |-> "ok"]

\* LocalStackStore.register_stack_component
LocalRegisterStackComponent(st, component) ==
    LET l == st.local
        components == l.mem.stack_components[component.type]
    IN  IF component.name \in DOMAIN components
        THEN [st |-> st, res |-> "StackComponentExistsError"]
        ELSE LET l2 == [l EXCEPT
                          !.files = Put(@, <<component.type, component.name>>,
                                        B64Decode(component.config)),
                          !.mem.stack_components[component.type] =
                              Put(@, component.name, component.flavor)]
             IN  [st |-> WithLocal(st, WriteStore(l2)), res |-> "ok"]

SqlComponentRow(component) ==
    [component_type   |-> component.type,
     name             |-> component.name,
     component_flavor |-> component.flavor,
     configuration    |-> component.config]

\* SqlStackStore.register_stack_component
SqlRegisterStackComponent(st, component) ==
    LET db == st.sql
        existing == { c \in db.zenstackcomponent :
                        c.name = component.name
                        /\ c.component_type = component.type }
    IN  IF existing # {}
        THEN [st |-> st, res |-> "StackComponentExistsError"]
        ELSE [st  |-> WithSql(st, [db EXCEPT !.zenstackcomponent =
                                      @ \cup {SqlComponentRow(component)}]),
              res |-> "ok"]

\* register_stack_component of the store's backend
RegisterStackComponent(st, component) ==
    IF st.backend = "local"
    THEN LocalRegisterStackComponent(st, component)
    ELSE SqlRegisterStackComponent(st, component)

LocalCreateStackUnwritten(st, name, cfg) ==
    [st |-> WithLocal(st, [st.local EXCEPT !.mem.stacks = Put(@, name, cfg)]),
     res |-> "ok"]

\* LocalStackStore._create_stack
LocalCreateStack(st, name, cfg) ==
    LET l2 == [st.local EXCEPT !.mem.stacks = Put(@, name, cfg)]
    IN  [st |-> WithLocal(st, WriteStore(l2)), res |-> "ok"]

SqlDefinitionRows(name, cfg) ==
    { [stack_name |-> name, component_type |-> t, component_name |-> cfg[t]] :
        t \in { x \in ComponentTypes : cfg[x] # None } }

SqlCreateStackUnkeyed(st, name, cfg) ==
    [st  |-> WithSql(st, [st.sql EXCEPT
                !.zenstack = @ \cup {[name |-> name, created_by |-> 1]},
                !.zenstackdefinition = @ \cup SqlDefinitionRows(name, cfg)]),
     res |-> "ok"]

\* SqlStackStore._create_stack: one transaction inserting the stack row and
\* one definition row per component; a row whose primary key is already in
\* its table fails the commit and nothing is inserted.
SqlCreateStack(st, name, cfg) ==
    LET db == st.sql
        rows == SqlDefinitionRows(name, cfg)
    IN  IF \/ name \in SqlStackNames(db)
           \/ rows \cap db.zenstackdefinition # {}
        THEN [st |-> st, res |-> "IntegrityError"]
        ELSE [st  |-> WithSql(st, [db EXCEPT
                         !.zenstack = @ \cup {[name |-> name, created_by |-> 1]},
                         !.zenstackdefinition = @ \cup rows]),
              res |-> "ok"]

\* _create_stack of the store's backend
CreateStack(st, name, cfg) ==
    IF st.backend = "local"
    THEN LocalCreateStack(st, name, cfg)
    ELSE SqlCreateStack(st, name, cfg)

\* LocalStackStore._delete_stack: an unknown name is logged, not raised.
LocalDeleteStack(st, name) ==
    IF name \in DOMAIN st.local.mem.stacks
    THEN LET l2 == [st.local EXCEPT !.mem.stacks = Del(@, name)]
         IN  [st |-> WithLocal(st, WriteStore(l2)), res |-> "ok"]
    ELSE [st |-> st, res |-> "ok"]

\* SqlStackStore._delete_stack: .one() raises when no row has the name; the
\* delete removes the ZenStack row and no other row (the models declare no
\* relationship and no cascade, and SQLite does not enforce the foreign keys
\* unless asked to).
SqlDeleteStack(st, name) ==
    IF name \notin SqlStackNames(st.sql)
    THEN [st |-> st, res |-> "NoResultFound"]
    ELSE [st  |-> WithSql(st, [st.sql EXCEPT
                     !.zenstack = { s \in @ : s.name # name }]),
          res |-> "ok"]

\* _delete_stack of the store's backend
DeleteStack(st, name) ==
    IF st.backend = "local"
    THEN LocalDeleteStack(st, name)
    ELSE SqlDeleteStack(st, name)

\* LocalStackStore._delete_stack_component: index entry, then payload file.
LocalDeleteStackComponent(st, t, n) ==
    LET l == st.local
        l2 == IF n \in DOMAIN l.mem.stack_components[t]
              THEN WriteStore([l EXCEPT !.mem.stack_components[t] = Del(@, n)])
              ELSE l
    IN  [st  |-> WithLocal(st, [l2 EXCEPT !.files = Del(@, <<t, n>>)]),
         res |-> "ok"]

\* SqlStackStore._delete_stack_component
SqlDeleteStackComponent(st, t, n) ==
    [st  |-> WithSql(st, [st.sql EXCEPT !.zenstackcomponent =
                 { c \in @ : ~(c.component_type = t /\ c.name = n) }]),
     res |-> "ok"]

\* _delete_stack_component of the store's backend
DeleteStackComponent(st, t, n) ==
    IF st.backend = "local"
    THEN LocalDeleteStackComponent(st, t, n)
    ELSE SqlDeleteStackComponent(st, t, n)

(***************************************************************************)
(* Shared algorithms of BaseStackStore and the public operations.          *)
(***************************************************************************)
\* register_stack.__check_component mapped over stack.components from
\* position i on: the store afterwards, the result and the number of
\* components the check was started for.
RECURSIVE CheckComponents(_, _, _)
CheckComponents(st, components, i) ==
    IF i > Len(components)
    THEN [st |-> st, res |-> "ok", checked |-> Len(components)]
    ELSE LET component == components[i]
             existing == GetStackComponent(st, component.type, component.name)
         IN  IF existing.res = "ok"
             THEN IF existing.component.uuid # component.uuid
                  THEN [st |-> st, res |-> "StackComponentExistsError",
                        checked |-> i]
                  ELSE CheckComponents(st, components, i + 1)
             ELSE IF existing.res = "KeyError"
                  THEN LET r == RegisterStackComponent(st, component)
                       IN  IF r.res = "ok"
                           THEN CheckComponents(r.st, components, i + 1)
                           ELSE [st |-> r.st, res |-> r.res, checked |-> i]
                  ELSE [st |-> st, res |-> existing.res, checked |-> i]

\* components = {t.value: n for ...}; StackConfiguration(**components)
StackConfigurationOf(components) ==
    [t \in ComponentTypes |->
        IF \E i \in 1..Len(components) : components[i].type = t
        THEN components[CHOOSE i \in 1..Len(components) :
                            components[i].type = t].name
        ELSE None]

MetadataOfFirst(components) ==
    [t \in { components[i].type : i \in { j \in 1..Len(components) : j = 1 } }
        |-> components[1].flavor]

\* metadata = {c.type.value: c.flavor for c in stack.components}
MetadataOf(components) ==
    [t \in { components[i].type : i \in 1..Len(components) } |->
        components[CHOOSE i \in 1..Len(components) :
                       components[i].type = t].flavor]

\* BaseStackStore.register_stack: the outcomes a call can have.
RegisterStack(st, stack) ==
    { IF found = "ok"
      THEN [st |-> st, res |-> "StackExistsError", checked |-> 0,
            metadata |-> None]
      ELSE IF found # "KeyError"
      THEN [st |-> st, res |-> found, checked |-> 0, metadata |-> None]
      ELSE LET c == CheckComponents(st, stack.components, 1)
           IN  IF c.res # "ok"
               THEN [st |-> c.st, res |-> c.res, checked |-> c.checked,
                     metadata |-> None]
               ELSE LET r == CreateStack(c.st, stack.name,
                                 StackConfigurationOf(stack.components))
                    IN  [st |-> r.st, res |-> r.res, checked |-> c.checked,
                         metadata |-> IF r.res = "ok"
                                      THEN MetadataOf(stack.components)
                                      ELSE None]
      : found \in GetStack(st, stack.name) }

DeregisterStackUnchecked(st, name) == DeleteStack(st, name)

\* BaseStackStore.deregister_stack
DeregisterStack(st, name) ==
    LET active == ActiveStackName(st)
    IN  IF active.res # "ok" THEN [st |-> st, res |-> active.res]
        ELSE IF name = active.name THEN [st |-> st, res |-> "ValueError"]
        ELSE DeleteStack(st, name)

\* BaseStackStore.deregister_stack_component: the outcomes a call can have.
DeregisterStackComponent(st, t, n) ==
    { IF \E s \in DOMAIN cfgs : ContainsComponent(cfgs[s], t, n)
      THEN [st |-> st, res |-> "ValueError"]
      ELSE DeleteStackComponent(st, t, n)
      : cfgs \in StackConfigurations(st) }

ActivateStackUnchecked(st, name) ==
    IF st.backend = "local"
    THEN { [st  |-> WithLocal(st, WriteStore(
                      [st.local EXCEPT !.mem.active_stack_name = name])),
            res |-> "ok"] }
    ELSE { [st  |-> WithSql(st, [st.sql EXCEPT
                      !.zenconfig.active_stack = name]),
            res |-> "ok"] }

\* LocalStackStore.activate_stack and SqlStackStore.activate_stack
ActivateStack(st, name) ==
    IF st.backend = "local"
    THEN IF name \notin DOMAIN st.local.mem.stacks
         THEN { [st |-> st, res |-> "KeyError"] }
         ELSE { [st  |-> WithLocal(st, WriteStore(
                           [st.local EXCEPT !.mem.active_stack_name = name])),
                 res |-> "ok"] }
    ELSE { IF found # "ok"
           THEN [st |-> st, res |-> found]
           ELSE [st  |-> WithSql(st, [st.sql EXCEPT
                           !.zenconfig.active_stack = name]),
                 res |-> "ok"]
           : found \in GetStack(st, name) }

(***************************************************************************)
(* The state machine: one store, of either backend, and a caller that      *)
(* issues the public operations one after the other.                       *)
(***************************************************************************)
Call(op, stack, t, n, component, res, checked, metadata) ==
    [op |-> op, stack |-> stack, type |-> t, name |-> n,
     component |-> component, res |-> res, checked |-> checked,
     metadata |-> metadata]

Init ==
    /\ backend \in Backends
    /\ local = LocalInit
    /\ sql = SqlInit
    /\ last = Call("init", None, None, None, None, "ok", 0, None)
    /\ config_files = EmptyFn
    /\ configs = EmptyFn
    /\ global_repository = FALSE
    /\ instances = EmptyFn

Apply(o) ==
    /\ local' = o.st.local
    /\ sql' = o.st.sql
    /\ UNCHANGED <<backend, config_files, configs, global_repository,
                   instances>>

DoRegisterStack ==
    \E stack \in StackWrappers :
        \E o \in RegisterStack(St, stack) :
            /\ Apply(o)
            /\ last' = Call("register_stack", stack, None, stack.name, None,
                            o.res, o.checked, o.metadata)

DoDeregisterStack ==
    \E name \in StackNames :
        LET o == DeregisterStack(St, name)
        IN  /\ Apply(o)
            /\ last' = Call("deregister_stack", None, None, name, None,
                            o.res, 0, None)

DoRegisterStackComponent ==
    \E component \in Catalog :
        LET o == RegisterStackComponent(St, component)
        IN  /\ Apply(o)
            /\ last' = Call("register_stack_component", None, component.type,
                            component.name, component, o.res, 0, None)

DoDeregisterStackComponent ==
    \E t \in ComponentTypes, n \in ComponentNames :
        \E o \in DeregisterStackComponent(St, t, n) :
            /\ Apply(o)
            /\ last' = Call("deregister_stack_component", None, t, n, None,
                            o.res, 0, None)

DoActivateStack ==
    \E name \in StackNames :
        \E o \in ActivateStack(St, name) :
            /\ Apply(o)
            /\ last' = Call("activate_stack", None, None, name, None,
                            o.res, 0, None)

\* get_stack_component: a read; the record it returns is recorded in the
\* call's component field.
DoGetStackComponent ==
    \E t \in ComponentTypes, n \in ComponentNames :
        LET r == GetStackComponent(St, t, n)
        IN  /\ Apply([st |-> St])
            /\ last' = Call("get_stack_component", None, t, n,
                            IF r.res = "ok" THEN r.component ELSE None,
                            r.res, 0, None)

Next ==
    \/ DoRegisterStack
    \/ DoDeregisterStack
    \/ DoRegisterStackComponent
    \/ DoDeregisterStackComponent
    \/ DoActivateStack
    \/ DoGetStackComponent

Spec == Init /\ [][Next]_vars

(***************************************************************************)
(* What a caller can observe of a store, for either backend.               *)
(***************************************************************************)
\* The names of the registered stacks.
StackSet(st) ==
    IF st.backend = "local" THEN DOMAIN st.local.mem.stacks
    ELSE SqlStackNames(st.sql)

\* The (type, name) pairs stored for stack n: the entries of its
\* StackConfiguration, or its rows of the join table.
StoredMapping(st, n) ==
    IF st.backend = "local"
    THEN { <<t, st.local.mem.stacks[n][t]>> :
             t \in { x \in ComponentTypes : st.local.mem.stacks[n][x] # None } }
    ELSE { <<d.component_type, d.component_name>> :
             d \in { x \in st.sql.zenstackdefinition : x.stack_name = n } }

\* The registered components with what is stored for them.
ComponentRecords(st) ==
    IF st.backend = "local"
    THEN { [type |-> t, name |-> n,
            flavor  |-> st.local.mem.stack_components[t][n],
            payload |-> IF <<t, n>> \in DOMAIN st.local.files
                        THEN st.local.files[<<t, n>>] ELSE None] :
             <<t, n>> \in UNION { { <<x, y>> :
                                       y \in DOMAIN st.local.mem.stack_components[x] } :
                                     x \in ComponentTypes } }
    ELSE { [type |-> c.component_type, name |-> c.name,
            flavor  |-> c.component_flavor,
            payload |-> B64Decode(c.configuration)] :
             c \in st.sql.zenstackcomponent }

ComponentSet(st) == { <<r.type, r.name>> : r \in ComponentRecords(st) }

\* The active-stack pointer, None when unset.
ActivePointer(st) ==
    IF st.backend = "local" THEN st.local.mem.active_stack_name
    ELSE st.sql.zenconfig.active_stack

StoreUnchanged == local' = local /\ sql' = sql

(***************************************************************************)
(* C1: register_stack with the name of a registered stack fails with       *)
(* StackExistsError before any component of the new stack is checked or    *)
(* registered, and the store is as it was.                                 *)
(***************************************************************************)
C1_ExistingNameConflict ==
    [][ (last'.op = "register_stack" /\ last'.name \in StackSet(St))
        => /\ last'.res = "StackExistsError"
           /\ last'.checked = 0
           /\ StoreUnchanged ]_vars

C1_Witness ==
    /\ last.op = "register_stack"
    /\ last.res = "StackExistsError"
    /\ last.name \in StackSet(St)
    /\ Len(last.stack.components) > 0

(***************************************************************************)
(* C2: register_stack of an unregistered name handles each component by    *)
(* its identity token: a stored record with another token makes the call   *)
(* fail with StackComponentExistsError and no stack is created; a stored   *)
(* record with the same token is left as it is; a component without a      *)
(* record is registered as passed in; and on success the mapping stored    *)
(* for the stack is exactly the (type, name) pairs of the components       *)
(* passed in.                                                              *)
(***************************************************************************)
C2_ComponentsByToken ==
    [][ (last'.op = "register_stack" /\ last'.name \notin StackSet(St))
        => LET cs == last'.stack.components
               before(i) == GetStackComponent(St, cs[i].type, cs[i].name)
               after(i) == GetStackComponent(St', cs[i].type, cs[i].name)
           IN  /\ (\E i \in 1..Len(cs) :
                      /\ before(i).res = "ok"
                      /\ before(i).component.uuid # cs[i].uuid)
                  => /\ last'.res = "StackComponentExistsError"
                     /\ last'.name \notin StackSet(St')
               /\ \A i \in 1..Len(cs) :
                      (before(i).res = "ok"
                       /\ before(i).component.uuid = cs[i].uuid)
                      => after(i) = before(i)
               /\ last'.res = "ok"
                  => /\ \A i \in 1..Len(cs) :
                            before(i).res = "KeyError"
                            => /\ after(i).res = "ok"
                               /\ after(i).component = cs[i]
                     /\ StoredMapping(St', last'.name) =
                            { <<cs[i].type, cs[i].name>> : i \in 1..Len(cs) } ]_vars

(***************************************************************************)
(* C3: a register_stack call that fails leaves the stack set and the       *)
(* component set as they were before the call.                             *)
(***************************************************************************)
C3_FailedRegisterIsAtomic ==
    [][ (last'.op = "register_stack" /\ last'.res # "ok")
        => /\ StackSet(St') = StackSet(St)
           /\ ComponentRecords(St') = ComponentRecords(St) ]_vars

(***************************************************************************)
(* C4 as claimed: register_stack_component of a (type, name) that is       *)
(* registered succeeds without changing the store when the token equals    *)
(* the stored one, and fails with StackComponentExistsError when it        *)
(* differs.                                                                *)
(***************************************************************************)
C4_SameTokenIsNoOp ==
    [][ (/\ last'.op = "register_stack_component"
         /\ <<last'.type, last'.name>> \in ComponentSet(St))
        => IF GetStackComponent(St, last'.type, last'.name).component.uuid
                = last'.component.uuid
           THEN last'.res = "ok" /\ StoreUnchanged
           ELSE last'.res = "StackComponentExistsError" ]_vars

(***************************************************************************)
(* C4 as amended: register_stack_component of a (type, name) that is       *)
(* registered fails with StackComponentExistsError on both backends,       *)
(* whether the token equals the stored one or not, and the store is as it  *)
(* was.                                                                    *)
(***************************************************************************)
C4_ExistingComponentConflict ==
    [][ (/\ last'.op = "register_stack_component"
         /\ <<last'.type, last'.name>> \in ComponentSet(St))
        => /\ last'.res = "StackComponentExistsError"
           /\ StoreUnchanged ]_vars

C4_Witness ==
    /\ last.op = "register_stack_component"
    /\ last.res = "StackComponentExistsError"
    /\ GetStackComponent(St, last.type, last.name).res = "ok"
    /\ GetStackComponent(St, last.type, last.name).component.uuid
           = last.component.uuid

(***************************************************************************)
(* C5: deregister_stack of the active stack fails with ValueError and the  *)
(* store is as it was.                                                     *)
(***************************************************************************)
C5_ActiveStackNotDeregistered ==
    [][ (last'.op = "deregister_stack" /\ last'.name = ActivePointer(St))
        => /\ last'.res = "ValueError"
           /\ StoreUnchanged ]_vars

C5_Witness ==
    /\ last.op = "deregister_stack"
    /\ last.res = "ValueError"
    /\ last.name = ActivePointer(St)
    /\ last.name \in StackSet(St)

(***************************************************************************)
(* C6: deregister_stack_component(t, n) fails with ValueError and leaves   *)
(* the store as it was when a registered stack maps t to n; otherwise it   *)
(* removes the record (t, n) and no other component.                       *)
(***************************************************************************)
C6_DeregisterComponent ==
    [][ last'.op = "deregister_stack_component"
        => IF \E s \in StackSet(St) :
                  <<last'.type, last'.name>> \in StoredMapping(St, s)
           THEN last'.res = "ValueError" /\ StoreUnchanged
           ELSE /\ last'.res = "ok"
                /\ ComponentRecords(St') =
                       { r \in ComponentRecords(St) :
                           <<r.type, r.name>> # <<last'.type, last'.name>> }
                /\ StackSet(St') = StackSet(St) ]_vars

(***************************************************************************)
(* C7: every (type, name) that a registered stack references is a          *)
(* registered component.                                                   *)
(***************************************************************************)
C7_ReferentialIntegrity ==
    \A s \in StackSet(St) : StoredMapping(St, s) \subseteq ComponentSet(St)

(***************************************************************************)
(* C8: the active stack name is unset or names a registered stack;         *)
(* activate_stack of an unregistered name fails with KeyError and leaves   *)
(* the pointer as it was; a successful activate_stack sets the pointer and *)
(* changes neither the stacks nor the components.                          *)
(***************************************************************************)
ActiveStackRegistered(st) ==
    ActivePointer(st) = None \/ ActivePointer(st) \in StackSet(st)

C8_ActivePointer ==
    /\ ActiveStackRegistered(St)
    /\ [][ /\ ActiveStackRegistered(St')
           /\ (last'.op = "activate_stack" /\ last'.name \notin StackSet(St))
              => /\ last'.res = "KeyError"
                 /\ ActivePointer(St') = ActivePointer(St)
           /\ (last'.op = "activate_stack" /\ last'.res = "ok")
              => /\ ActivePointer(St') = last'.name
                 /\ StackSet(St') = StackSet(St)
                 /\ \A s \in StackSet(St) :
                        StoredMapping(St', s) = StoredMapping(St, s)
                 /\ ComponentRecords(St') = ComponentRecords(St) ]_vars

C8_Witness ==
    /\ last.op = "activate_stack"
    /\ last.res = "ok"
    /\ ActivePointer(St) = last.name
    /\ Cardinality(StackSet(St)) > 1

(***************************************************************************)
(* C9: Scenario C from any store in which stack s and component c do not   *)
(* exist and s is not the active stack: register_stack(s referencing c)    *)
(* succeeds, deregister_stack_component(c) fails with ValueError,          *)
(* deregister_stack(s) succeeds, and deregister_stack_component(c) then    *)
(* succeeds and removes c.                                                 *)
(***************************************************************************)
ScenarioC(st, s, c) ==
    \A o1 \in RegisterStack(st, [name |-> s, components |-> <<c>>]) :
        /\ o1.res = "ok"
        /\ \A o2 \in DeregisterStackComponent(o1.st, c.type, c.name) :
               /\ o2.res = "ValueError"
               /\ LET o3 == DeregisterStack(o2.st, s)
                  IN  /\ o3.res = "ok"
                      /\ \A o4 \in DeregisterStackComponent(o3.st, c.type,
                                                            c.name) :
                             /\ o4.res = "ok"
                             /\ <<c.type, c.name>> \notin ComponentSet(o4.st)

C9_ScenarioC ==
    \A s \in StackNames, c \in Catalog :
        (/\ s \notin StackSet(St)
         /\ <<c.type, c.name>> \notin ComponentSet(St)
         /\ ActivePointer(St) # s)
        => ScenarioC(St, s, c)

(***************************************************************************)
(* C10: on the relational backend, after deregister_stack(n) returned      *)
(* successfully no row of the join table has stack name n.                 *)
(***************************************************************************)
C10_JoinRowsDeleted ==
    [][ (/\ backend = "sql"
         /\ last'.op = "deregister_stack"
         /\ last'.res = "ok")
        => \A d \in sql'.zenstackdefinition : d.stack_name # last'.name ]_vars

(***************************************************************************)
(* Two stores side by side: a LocalStackStore and a SqlStackStore, both    *)
(* empty at first, receive the same calls.  `backend` is "both"; `local`   *)
(* is the local store, `sql` the relational one, and `last` holds the pair *)
(* of results (res) and the pair of returned values (metadata).  The       *)
(* caller stops comparing at the first call whose outcomes differ.         *)
(***************************************************************************)
StLocal == [backend |-> "local", local |-> local, sql |-> sql]

StSql == [backend |-> "sql", local |-> local, sql |-> sql]

BothInit ==
    /\ backend = "both"
    /\ local = LocalInit
    /\ sql = SqlInit
    /\ last = Call("init", None, None, None, None, <<"ok", "ok">>, 0,
                   <<None, None>>)
    /\ config_files = EmptyFn
    /\ configs = EmptyFn
    /\ global_repository = FALSE
    /\ instances = EmptyFn

SameOutcome(call) ==
    /\ call.res[1] = call.res[2]
    /\ call.metadata[1] = call.metadata[2]

BothApply(ol, os) ==
    /\ last.res[1] = last.res[2]
    /\ last.metadata[1] = last.metadata[2]
    /\ local' = ol.st.local
    /\ sql' = os.st.sql
    /\ UNCHANGED <<backend, config_files, configs, global_repository,
                   instances>>

\* The stacks registered on the pair of stores: those of at most one
\* component.
BothStacks == { stack \in StackWrappers : Len(stack.components) <= 1 }

BothNext ==
    \* register_stack
    \/ \E stack \in BothStacks :
           \E ol \in RegisterStack(StLocal, stack),
              os \in RegisterStack(StSql, stack) :
               /\ BothApply(ol, os)
               /\ last' = Call("register_stack", stack, None, stack.name, None,
                               <<ol.res, os.res>>, 0,
                               <<ol.metadata, os.metadata>>)
    \* deregister_stack
    \/ \E name \in StackNames :
           LET ol == DeregisterStack(StLocal, name)
               os == DeregisterStack(StSql, name)
           IN  /\ BothApply(ol, os)
               /\ last' = Call("deregister_stack", None, None, name, None,
                               <<ol.res, os.res>>, 0, <<None, None>>)
    \* register_stack_component
    \/ \E component \in Catalog :
           LET ol == RegisterStackComponent(StLocal, component)
               os == RegisterStackComponent(StSql, component)
           IN  /\ BothApply(ol, os)
               /\ last' = Call("register_stack_component", None, component.type,
                               component.name, component, <<ol.res, os.res>>, 0,
                               <<None, None>>)
    \* deregister_stack_component
    \/ \E t \in ComponentTypes, n \in ComponentNames :
           \E ol \in DeregisterStackComponent(StLocal, t, n),
              os \in DeregisterStackComponent(StSql, t, n) :
               /\ BothApply(ol, os)
               /\ last' = Call("deregister_stack_component", None, t, n, None,
                               <<ol.res, os.res>>, 0, <<None, None>>)
    \* activate_stack
    \/ \E name \in StackNames :
           \E ol \in ActivateStack(StLocal, name),
              os \in ActivateStack(StSql, name) :
               /\ BothApply(ol, os)
               /\ last' = Call("activate_stack", None, None, name, None,
                               <<ol.res, os.res>>, 0, <<None, None>>)
    \* get_stack_configuration
    \/ \E name \in StackNames :
           \E rl \in GetStackConfiguration(StLocal, name),
              rs \in GetStackConfiguration(StSql, name) :
               /\ BothApply([st |-> StLocal], [st |-> StSql])
               /\ last' = Call("get_stack_configuration", None, None, name, None,
                               <<rl.res, rs.res>>, 0,
                               <<IF rl.res = "ok" THEN rl.cfg ELSE None,
                                 IF rs.res = "ok" THEN rs.cfg ELSE None>>)
    \* active_stack_name
    \/ LET rl == ActiveStackName(StLocal)
           rs == ActiveStackName(StSql)
       IN  /\ BothApply([st |-> StLocal], [st |-> StSql])
           /\ last' = Call("active_stack_name", None, None, None, None,
                           <<rl.res, rs.res>>, 0,
                           <<IF rl.res = "ok" THEN rl.name ELSE None,
                             IF rs.res = "ok" THEN rs.name ELSE None>>)

SpecBoth == BothInit /\ [][BothNext]_vars

\* C11: the local and the relational backend are observationally
\* equivalent: after the same calls on two initially empty stores, every
\* call returns the same result, or raises the same kind of error, on both.
C11_BackendsEquivalent == SameOutcome(last)

(***************************************************************************)
(* The Repository over one store of either backend, empty at first: the    *)
(* calls it forwards to its stack store, with the default local stack of   *)
(* Repository._initialize among the stacks callers register.               *)
(***************************************************************************)
\* Stack.default_local_stack(): a local orchestrator, a SQLite metadata
\* store and a local artifact store.
DefaultLocalStack ==
    [name |-> "default",
     components |->
        << ComponentConfiguration("orchestrator", "local_orchestrator",
                                  "U4", "local", "p1"),
           ComponentConfiguration("metadata_store", "local_metadata_store",
                                  "U5", "sqlite", "p1"),
           ComponentConfiguration("artifact_store", "local_artifact_store",
                                  "U6", "local", "p1") >>]

RepoStacks ==
    { DefaultLocalStack, [DefaultLocalStack EXCEPT !.name = "s1"] }

RepoStackNames == { s.name : s \in RepoStacks }

\* Repository._initialize: register the default local stack, then activate
\* it; an exception of the registration ends the call.
RepositoryInitialize(st) ==
    UNION { IF r.res # "ok" THEN { [st |-> r.st, res |-> r.res] }
            ELSE ActivateStack(r.st, DefaultLocalStack.name) :
            r \in RegisterStack(st, DefaultLocalStack) }

RepoNext ==
    \* Repository._initialize
    \/ \E o \in RepositoryInitialize(St) :
           /\ Apply(o)
           /\ last' = Call("_initialize", DefaultLocalStack, None,
                           DefaultLocalStack.name, None, o.res, 0, None)
    \* Repository.register_stack
    \/ \E stack \in RepoStacks :
           \E o \in RegisterStack(St, stack) :
               /\ Apply(o)
               /\ last' = Call("register_stack", stack, None, stack.name, None,
                               o.res, o.checked, o.metadata)
    \* Repository.deregister_stack
    \/ \E name \in RepoStackNames :
           LET o == DeregisterStack(St, name)
           IN  /\ Apply(o)
               /\ last' = Call("deregister_stack", None, None, name, None,
                               o.res, 0, None)
    \* Repository.deregister_stack_component
    \/ \E i \in 1..Len(DefaultLocalStack.components) :
           LET c == DefaultLocalStack.components[i]
           IN  \E o \in DeregisterStackComponent(St, c.type, c.name) :
                   /\ Apply(o)
                   /\ last' = Call("deregister_stack_component", None, c.type,
                                   c.name, None, o.res, 0, None)
    \* Repository.activate_stack
    \/ \E name \in RepoStackNames :
           \E o \in ActivateStack(St, name) :
               /\ Apply(o)
               /\ last' = Call("activate_stack", None, None, name, None,
                               o.res, 0, None)
    \* Repository.active_stack_name: a read; the name it returns is recorded
    \* in the call's metadata field.
    \/ LET r == ActiveStackName(St)
       IN  /\ UNCHANGED <<backend, local, sql, config_files, configs,
                          global_repository, instances>>
           /\ last' = Call("active_stack_name", None, None, None, None, r.res,
                           0, IF r.res = "ok" THEN r.name ELSE None)

SpecRepo == Init /\ [][RepoNext]_vars

IsEmptyStore(st) ==
    /\ StackSet(st) = {}
    /\ ComponentSet(st) = {}
    /\ ActivePointer(st) = None

(***************************************************************************)
(* C12 (Scenario A): on an empty store, registering the stack "default"    *)
(* with an orchestrator, an artifact store and a metadata store succeeds,  *)
(* activating "default" after it succeeds, and the active-stack-name read  *)
(* that follows returns "default" (also when both steps are done by        *)
(* Repository._initialize); on an empty store, before any activation, the  *)
(* read fails with RuntimeError instead of returning a name.               *)
(***************************************************************************)
C12_ScenarioA ==
    [][ /\ ( /\ IsEmptyStore(St)
             /\ last'.op \in {"register_stack", "_initialize"}
             /\ last'.name = "default" )
           => /\ last'.res = "ok"
              /\ "default" \in StackSet(St')
              /\ StoredMapping(St', "default") =
                   { <<"orchestrator", "local_orchestrator">>,
                     <<"artifact_store", "local_artifact_store">>,
                     <<"metadata_store", "local_metadata_store">> }
        /\ ( /\ last.op = "register_stack"
             /\ last.name = "default"
             /\ last.res = "ok"
             /\ last'.op = "activate_stack"
             /\ last'.name = "default" )
           => last'.res = "ok"
        /\ ( /\ last.op \in {"activate_stack", "_initialize"}
             /\ last.name = "default"
             /\ last.res = "ok"
             /\ last'.op = "active_stack_name" )
           => /\ last'.res = "ok"
              /\ last'.metadata = "default"
        /\ ( /\ IsEmptyStore(St)
             /\ last'.op = "active_stack_name" )
           => /\ last'.res = "RuntimeError"
              /\ last'.metadata = None
      ]_vars

\* The read returned "default" right after "default", made of the three
\* default components, was activated.
C12_Witness ==
    /\ last.op = "active_stack_name"
    /\ last.res = "ok"
    /\ last.metadata = "default"
    /\ Cardinality(StoredMapping(St, "default")) = 3
    /\ StackSet(St) = {"default"}

(***************************************************************************)
(* The Repository singleton (repository.py) of a process over the store    *)
(* its active profile resolves to.  An outcome of a Repository operation   *)
(* is [st, res, events]: the store afterwards, "ok" or the exception       *)
(* raised, and the analytics events the call emitted, in order.            *)
(***************************************************************************)
NoEvents == << >>

\* utils.analytics_utils.track(event): the decorated method runs and, when
\* it has returned, the event is emitted.
Track(event, outcomes) ==
    { [st |-> o.st, res |-> o.res,
       events |-> IF o.res = "ok" THEN o.events \o <<event>> ELSE o.events] :
      o \in outcomes }

Untracked(outcomes) ==
    { [st |-> o.st, res |-> o.res, events |-> NoEvents] : o \in outcomes }

\* Repository.register_stack: track_event follows the store's call.
RepositoryRegisterStack(st, stack) ==
    Track("REGISTERED_STACK", Untracked(RegisterStack(st, stack)))

\* Repository.deregister_stack
RepositoryDeregisterStack(st, name) ==
    Untracked({ DeregisterStack(st, name) })

\* Repository.register_stack_component: track_event follows the store's call.
RepositoryRegisterStackComponent(st, component) ==
    Track("REGISTERED_STACK_COMPONENT",
          Untracked({ RegisterStackComponent(st, component) }))

\* Repository.deregister_stack_component
RepositoryDeregisterStackComponent(st, t, n) ==
    Untracked(DeregisterStackComponent(st, t, n))

\* Repository.activate_stack, decorated with @track(SET_STACK)
RepositoryActivateStack(st, name) ==
    Track("SET_STACK", Untracked(ActivateStack(st, name)))

\* Repository._initialize, decorated with @track(INITIALIZE_REPO), with the
\* events of the two Repository methods it calls.
RepositoryInitializeTracked(st) ==
    Track("INITIALIZE_REPO",
          UNION { IF r.res # "ok" THEN { r }
                  ELSE { [st |-> a.st, res |-> a.res,
                          events |-> r.events \o a.events] :
                         a \in RepositoryActivateStack(
                                   r.st, DefaultLocalStack.name) } :
                  r \in RepositoryRegisterStack(st, DefaultLocalStack) })

\* BaseStackStore.stacks: every stack of stack_configurations is built from
\* its configuration; the first component that is missing ends the read.
Stacks(st) ==
    { LET bad == { n \in DOMAIN cfgs :
                     StackFromConfiguration(st, cfgs[n]) # "ok" }
      IN  IF bad = {} THEN [res |-> "ok", names |-> DOMAIN cfgs]
          ELSE [res |-> StackFromConfiguration(
                            st, cfgs[CHOOSE n \in bad : TRUE])]
      : cfgs \in StackConfigurations(st) }

IsEmptyNever(st) ==
    { IF r.res # "ok" THEN [res |-> r.res]
      ELSE [res |-> "ok", value |-> FALSE] : r \in Stacks(st) }

\* Repository.is_empty: not self.stacks
IsEmpty(st) ==
    { IF r.res # "ok" THEN [res |-> r.res]
      ELSE [res |-> "ok", value |-> (r.names = {})] : r \in Stacks(st) }

\* LocalStackStore.__init__ without stack_data: the model is parsed from
\* config.yaml when the file exists and is the empty store otherwise.
LocalStackStoreInit(l) ==
    [l EXCEPT !.mem = IF l.disk = << >> THEN EmptyStore ELSE l.disk[1]]

\* Repository.__init__: create_store opens the store of the active profile
\* (the profile resolves and its URL is valid).
RepositoryInit(st) ==
    IF st.backend = "local"
    THEN WithLocal(st, LocalStackStoreInit(st.local))
    ELSE st

RepositoryMetaClassCallUnguarded(st, global, step_is_running) ==
    IF global
    THEN { [st |-> st, global |-> global, res |-> "ok", events |-> NoEvents] }
    ELSE IF step_is_running
    THEN { [st |-> st, global |-> global,
            res |-> "ForbiddenRepositoryAccessError", events |-> NoEvents] }
    ELSE { [st |-> i.st, global |-> TRUE, res |-> i.res,
            events |-> i.events] :
           i \in RepositoryInitializeTracked(RepositoryInit(st)) }

\* RepositoryMetaClass.__call__: refused while a step is running; else the
\* singleton is returned, constructed the first time (the class attribute is
\* assigned before is_empty is read) and initialized when it is empty.
RepositoryMetaClassCall(st, global, step_is_running) ==
    IF step_is_running
    THEN { [st |-> st, global |-> global,
            res |-> "ForbiddenRepositoryAccessError", events |-> NoEvents] }
    ELSE IF global
    THEN { [st |-> st, global |-> global, res |-> "ok", events |-> NoEvents] }
    ELSE LET s1 == RepositoryInit(st)
         IN  UNION { IF e.res # "ok"
                     THEN { [st |-> s1, global |-> TRUE, res |-> e.res,
                             events |-> NoEvents] }
                     ELSE IF ~e.value
                     THEN { [st |-> s1, global |-> TRUE, res |-> "ok",
                             events |-> NoEvents] }
                     ELSE { [st |-> i.st, global |-> TRUE, res |-> i.res,
                             events |-> i.events] :
                            i \in RepositoryInitializeTracked(s1) } :
                     e \in IsEmpty(s1) }

(***************************************************************************)
(* The state machine of the Repository: processes that run one after the   *)
(* other on the same store, empty at first.  A process constructs the      *)
(* Repository (inside or outside a running step) and calls the methods of  *)
(* the singleton it holds.                                                 *)
(***************************************************************************)
RepositoryCall(op, stack, t, n, component, res, events, step) ==
    [op |-> op, stack |-> stack, type |-> t, name |-> n,
     component |-> component, res |-> res, events |-> events,
     step_is_running |-> step]

\* The stacks callers register: the default local stack, the same
\* components under another name, and a stack of the orchestrator alone.
RepositoryStacks ==
    RepoStacks \cup
    { [name |-> "s1", components |-> <<DefaultLocalStack.components[1]>>] }

RepositoryStart ==
    /\ backend \in Backends
    /\ local = LocalInit
    /\ sql = SqlInit
    /\ last = RepositoryCall("init", None, None, None, None, "ok", NoEvents,
                             FALSE)
    /\ config_files = EmptyFn
    /\ configs = EmptyFn
    /\ global_repository = FALSE
    /\ instances = EmptyFn

RepositoryApply(o) ==
    /\ global_repository
    /\ local' = o.st.local
    /\ sql' = o.st.sql
    /\ UNCHANGED <<backend, config_files, configs, global_repository,
                   instances>>

\* Repository()
RepositoryConstruct ==
    \E step \in BOOLEAN :
        \E o \in RepositoryMetaClassCall(St, global_repository, step) :
            /\ local' = o.st.local
            /\ sql' = o.st.sql
            /\ global_repository' = o.global
            /\ UNCHANGED <<backend, config_files, configs, instances>>
            /\ last' = RepositoryCall("Repository", None, None, None, None,
                                      o.res, o.events, step)

\* The process ends and another one starts: the class attribute is unset.
RepositoryNewProcess ==
    /\ global_repository
    /\ global_repository' = FALSE
    /\ UNCHANGED <<backend, local, sql, config_files, configs, instances>>
    /\ last' = RepositoryCall("new_process", None, None, None, None, "ok",
                              NoEvents, FALSE)

RepositoryDoRegisterStack ==
    \E stack \in RepositoryStacks :
        \E o \in RepositoryRegisterStack(St, stack) :
            /\ RepositoryApply(o)
            /\ last' = RepositoryCall("register_stack", stack, None,
                                      stack.name, None, o.res, o.events, FALSE)

RepositoryDoDeregisterStack ==
    \E name \in RepoStackNames :
        \E o \in RepositoryDeregisterStack(St, name) :
            /\ RepositoryApply(o)
            /\ last' = RepositoryCall("deregister_stack", None, None, name,
                                      None, o.res, o.events, FALSE)

RepositoryDoRegisterStackComponent ==
    \E i \in 1..Len(DefaultLocalStack.components) :
        LET c == DefaultLocalStack.components[i]
        IN  \E o \in RepositoryRegisterStackComponent(St, c) :
                /\ RepositoryApply(o)
                /\ last' = RepositoryCall("register_stack_component", None,
                                          c.type, c.name, c, o.res, o.events,
                                          FALSE)

RepositoryDoDeregisterStackComponent ==
    \E i \in 1..Len(DefaultLocalStack.components) :
        LET c == DefaultLocalStack.components[i]
        IN  \E o \in RepositoryDeregisterStackComponent(St, c.type, c.name) :
                /\ RepositoryApply(o)
                /\ last' = RepositoryCall("deregister_stack_component", None,
                                          c.type, c.name, None, o.res,
                                          o.events, FALSE)

RepositoryDoActivateStack ==
    \E name \in RepoStackNames :
        \E o \in RepositoryActivateStack(St, name) :
            /\ RepositoryApply(o)
            /\ last' = RepositoryCall("activate_stack", None, None, name,
                                      None, o.res, o.events, FALSE)

RepositoryNext ==
    \/ RepositoryConstruct
    \/ RepositoryNewProcess
    \/ RepositoryDoRegisterStack
    \/ RepositoryDoDeregisterStack
    \/ RepositoryDoRegisterStackComponent
    \/ RepositoryDoDeregisterStackComponent
    \/ RepositoryDoActivateStack

SpecRepository == RepositoryStart /\ [][RepositoryNext]_vars

(***************************************************************************)
(* Two LocalStackStore instances on one directory (two processes on the    *)
(* same profile).  `local` is the directory: its index document (disk) and *)
(* its payload files; instances[i] is the in-memory model of instance i,   *)
(* loaded when the instance was constructed.  The operations of the two    *)
(* instances interleave call by call.                                      *)
(***************************************************************************)
InstanceIds == {"a", "b"}

\* The store as instance i has it: its own model over the shared directory.
InstanceStore(i) ==
    [backend |-> "local",
     local |-> [mem |-> instances[i], disk |-> local.disk,
                files |-> local.files],
     sql |-> sql]

InstanceCall(i, op, stack, t, n, component, res) ==
    [instance |-> i, op |-> op, stack |-> stack, type |-> t, name |-> n,
     component |-> component, res |-> res]

\* The stacks and components the two processes register.
WriterComponents ==
    { ComponentConfiguration("orchestrator", "c1", "U1", "f1", "p1") }

WriterStacks ==
    { stack \in StackWrappers :
        \A i \in 1..Len(stack.components) :
            stack.components[i] \in WriterComponents }

WritersInit ==
    /\ backend = "local"
    /\ local = LocalInit
    /\ sql = SqlInit
    /\ last = InstanceCall(None, "init", None, None, None, None, "ok")
    /\ config_files = EmptyFn
    /\ configs = EmptyFn
    /\ global_repository = FALSE
    /\ instances = EmptyFn

\* The outcome of a call of instance i: its model, and the directory.
InstanceApply(i, o) ==
    /\ instances' = [instances EXCEPT ![i] = o.st.local.mem]
    /\ local' = [local EXCEPT !.disk = o.st.local.disk,
                              !.files = o.st.local.files]
    /\ UNCHANGED <<backend, sql, config_files, configs, global_repository>>

\* LocalStackStore(url): an instance is constructed on the directory.
InstanceOpen ==
    \E i \in InstanceIds \ DOMAIN instances :
        /\ instances' = Put(instances, i, LocalStackStoreInit(local).mem)
        /\ UNCHANGED <<backend, local, sql, config_files, configs,
                       global_repository>>
        /\ last' = InstanceCall(i, "LocalStackStore", None, None, None, None,
                                "ok")

InstanceRegisterStack ==
    \E i \in DOMAIN instances, stack \in WriterStacks :
        \E o \in RegisterStack(InstanceStore(i), stack) :
            /\ InstanceApply(i, o)
            /\ last' = InstanceCall(i, "register_stack", stack, None,
                                    stack.name, None, o.res)

InstanceDeregisterStack ==
    \E i \in DOMAIN instances, name \in StackNames :
        LET o == DeregisterStack(InstanceStore(i), name)
        IN  /\ InstanceApply(i, o)
            /\ last' = InstanceCall(i, "deregister_stack", None, None, name,
                                    None, o.res)

InstanceRegisterStackComponent ==
    \E i \in DOMAIN instances, component \in WriterComponents :
        LET o == RegisterStackComponent(InstanceStore(i), component)
        IN  /\ InstanceApply(i, o)
            /\ last' = InstanceCall(i, "register_stack_component", None,
                                    component.type, component.name, component,
                                    o.res)

InstanceDeregisterStackComponent ==
    \E i \in DOMAIN instances, component \in WriterComponents :
        \E o \in DeregisterStackComponent(InstanceStore(i), component.type,
                                          component.name) :
            /\ InstanceApply(i, o)
            /\ last' = InstanceCall(i, "deregister_stack_component", None,
                                    component.type, component.name, None,
                                    o.res)

InstanceActivateStack ==
    \E i \in DOMAIN instances, name \in StackNames :
        \E o \in ActivateStack(InstanceStore(i), name) :
            /\ InstanceApply(i, o)
            /\ last' = InstanceCall(i, "activate_stack", None, None, name,
                                    None, o.res)

WritersNext ==
    \/ InstanceOpen
    \/ InstanceRegisterStack
    \/ InstanceDeregisterStack
    \/ InstanceRegisterStackComponent
    \/ InstanceDeregisterStackComponent
    \/ InstanceActivateStack

SpecWriters == WritersInit /\ [][WritersNext]_vars

(***************************************************************************)
(* GlobalConfig (config/global_config.py).  A world is the record          *)
(* [files, configs, environ]: files[dir] holds the document config.yaml    *)
(* of the directory and its legacy .zenglobal.json (None when absent),     *)
(* configs[id] is an instance in memory with its _config_path and its      *)
(* fields, environ is the process environment at the time of the call: it  *)
(* maps the fields whose ZENML_<FIELD> variable is set to the string of    *)
(* the variable.  Every operation is an operator from a                    *)
(* world to an outcome [w, res, value, writes]: the world afterwards, "ok" *)
(* or the exception raised, the value returned and the number of times     *)
(* _write_config ran.                                                      *)
(***************************************************************************)
W(env) == [files |-> config_files, configs |-> configs, environ |-> env]

WNext == [files |-> config_files', configs |-> configs', environ |-> EmptyFn]

\* The default global configuration directory and one other directory.
Locations == {"home", "alt"}

DefaultConfigDirectory == "home"

DEFAULT_PROFILE_NAME == "default"

\* zenml.__version__ of the running code, with an older and a newer release.
RunningVersion == "0.7.0"

OlderVersion == "0.6.0"

NewerVersion == "0.8.0"

Versions == {OlderVersion, RunningVersion, NewerVersion}

\* VersionInfo.compare: the order of the releases.
VersionRank(v) ==
    CASE v = OlderVersion -> 1
      [] v = RunningVersion -> 2
      [] v = NewerVersion -> 3

VersionGreater(a, b) == VersionRank(a) > VersionRank(b)

\* The values uuid.uuid4 generates.
Tokens == {"T1", "T2"}

Fields == {"user_id", "analytics_opt_in", "version", "active_profile_name"}

\* The singleton and the instances constructed with an explicit path.
SingletonId == "global"

ExplicitIds == {"x1"}

\* A service URL is a sequence of its parts; the empty one is no URL.
NoUrl == << >>

\* store_class.get_local_url(profile.config_path), where config_path is
\* <config directory>/profiles/<name>.
GetLocalUrl(store_type, dir, name) ==
    IF store_type = "local" THEN <<"file", dir, "profiles", name>>
    ELSE <<"sqlite", dir, "profiles", name, "zenml.db">>

ConfigProfile(name, service_url, store_type) ==
    [name |-> name, service_url |-> service_url, store_type |-> store_type,
     config |-> None]

\* json.loads(self.json()): the private attributes (the _config of a
\* profile, the _config_path) are not part of the document.
SerializeProfile(p) ==
    [name |-> p.name, service_url |-> p.service_url,
     store_type |-> p.store_type]

Serialize(doc) ==
    [doc EXCEPT !.profiles = [n \in DOMAIN @ |-> SerializeProfile(@[n])]]

\* pydantic parsing of a stored profile: _config is left unset.
ParseProfile(d) == ConfigProfile(d.name, d.service_url, d.store_type)

CONFIG_FILE_NAME == "config.yaml"

LEGACY_CONFIG_FILE_NAME == ".zenglobal.json"

FileExists(w, dir, file) == file \in DOMAIN w.files[dir]

\* _read_config: config.yaml, else the legacy file, else no values.
ReadConfig(w, dir) ==
    IF FileExists(w, dir, CONFIG_FILE_NAME)
    THEN w.files[dir][CONFIG_FILE_NAME]
    ELSE IF FileExists(w, dir, LEGACY_CONFIG_FILE_NAME)
    THEN w.files[dir][LEGACY_CONFIG_FILE_NAME]
    ELSE EmptyFn

UsedTokens(w) ==
    UNION { { w.files[d][f].user_id : f \in DOMAIN w.files[d] } :
            d \in Locations }
    \cup { w.configs[i].doc.user_id : i \in DOMAIN w.configs }

\* default_factory=uuid.uuid4: a token no document or instance holds.
Uuid4(w) == CHOOSE t \in Tokens : t \notin UsedTokens(w)

\* super().__init__(**config_values): the fields of a new instance, the
\* stored values where the document has them and the defaults elsewhere.
LoadFields(w, dir) ==
    LET values == ReadConfig(w, dir)
    IN  [user_id |-> IF "user_id" \in DOMAIN values THEN values.user_id
                     ELSE Uuid4(w),
         analytics_opt_in |-> IF "analytics_opt_in" \in DOMAIN values
                              THEN values.analytics_opt_in ELSE TRUE,
         version |-> IF "version" \in DOMAIN values THEN values.version
                     ELSE None,
         active_profile_name |-> IF "active_profile_name" \in DOMAIN values
                                 THEN values.active_profile_name ELSE None,
         profiles |-> IF "profiles" \in DOMAIN values
                      THEN [n \in DOMAIN values.profiles |->
                              ParseProfile(values.profiles[n])]
                      ELSE EmptyFn]

\* _write_config: the serialized fields replace config.yaml in the
\* directory of the instance.
WriteConfig(w, id) ==
    [w EXCEPT !.files[w.configs[id].path] =
                 Put(@, CONFIG_FILE_NAME, Serialize(w.configs[id].doc))]

GlobalConfigInitNoWrite(w, id, dir) ==
    [w |-> [w EXCEPT !.configs =
                       Put(@, id, [path |-> dir, doc |-> LoadFields(w, dir)])],
     writes |-> 0]

\* GlobalConfig.__init__: load the fields from the directory and, when it
\* has no config.yaml yet, write one.
GlobalConfigInit(w, id, dir) ==
    LET w1 == [w EXCEPT !.configs =
                 Put(@, id, [path |-> dir, doc |-> LoadFields(w, dir)])]
    IN  IF FileExists(w, dir, CONFIG_FILE_NAME) THEN [w |-> w1, writes |-> 0]
        ELSE [w |-> WriteConfig(w1, id), writes |-> 1]

(***************************************************************************)
(* Field access.                                                           *)
(***************************************************************************)
CONFIG_ENV_VAR_PREFIX == "ZENML_"

\* pydantic's conversion of the string of an environment variable to the
\* type of the field: a bool from "true"/"false", a version that parses
\* as a semantic version, any string as a profile name, a UUID.
Convert(key, raw) ==
    CASE key = "analytics_opt_in" ->
           IF raw \in {"true", "false"}
           THEN [res |-> "ok", value |-> (raw = "true")]
           ELSE [res |-> "ValidationError"]
      [] key = "version" ->
           IF raw \in Versions THEN [res |-> "ok", value |-> raw]
           ELSE [res |-> "ValidationError"]
      [] key = "active_profile_name" -> [res |-> "ok", value |-> raw]
      [] key = "user_id" -> [res |-> "ok", value |-> raw]

\* BaseModel.__setattr__ under validate_assignment: user_id is declared
\* with allow_mutation=False and raises TypeError before any validation;
\* `conv` is the outcome of the conversion of the assigned value.
BaseSetAttr(w, id, key, conv) ==
    IF key = "user_id" THEN [w |-> w, res |-> "TypeError"]
    ELSE IF conv.res # "ok" THEN [w |-> w, res |-> conv.res]
    ELSE [w |-> [w EXCEPT !.configs[id].doc[key] = conv.value],
          res |-> "ok"]

\* GlobalConfig.__setattr__: assign, then write the document (the keys
\* written here are never internal ones).
SetAttr(w, id, key, conv) ==
    LET s == BaseSetAttr(w, id, key, conv)
    IN  IF s.res # "ok" THEN [w |-> w, res |-> s.res, writes |-> 0]
        ELSE [w |-> WriteConfig(s.w, id), res |-> "ok", writes |-> 1]

\* GlobalConfig.__getattribute__ of a field: when ZENML_<FIELD> is set,
\* its string is assigned to the field for conversion, the converted value
\* is read and the stored value is assigned back; a KeyError, a
\* ValidationError or a TypeError on the way yields the stored value.
GetAttribute(w, id, key) ==
    LET value == w.configs[id].doc[key]
        s == BaseSetAttr(w, id, key, Convert(key, w.environ[key]))
    IN  IF key \notin DOMAIN w.environ THEN [w |-> w, value |-> value]
        ELSE IF s.res # "ok" THEN [w |-> w, value |-> value]
        ELSE [w |-> BaseSetAttr(s.w, id, key,
                                [res |-> "ok", value |-> value]).w,
              value |-> s.w.configs[id].doc[key]]

\* _migrate_config: self.version is read through __getattribute__.
MigrateConfig(w, id) ==
    LET version == GetAttribute(w, id, "version").value
    IN  IF version # None /\ VersionGreater(version, RunningVersion)
        THEN [w |-> w, res |-> "RuntimeError", writes |-> 0]
        ELSE IF version # None /\ version = RunningVersion
        THEN [w |-> w, res |-> "ok", writes |-> 0]
        ELSE SetAttr(w, id, "version",
                     [res |-> "ok", value |-> RunningVersion])

(***************************************************************************)
(* Profiles.  self.profiles is read through __getattribute__ as well, but  *)
(* no string converts to a profile map, so the stored map is what is read. *)
(***************************************************************************)
\* The directories there are besides those the profiles get.
ExistingDirectories == { <<"data">> }

\* The directories of a world; a world that does not follow them has none.
Dirs(w) == IF "dirs" \in DOMAIN w THEN w.dirs ELSE {}

WithDirs(w, dirs) == IF "dirs" \in DOMAIN w THEN [w EXCEPT !.dirs = dirs] ELSE w

\* ConfigProfile.config_path: <config directory>/profiles/<name>
ProfileConfigPath(dir, name) == <<dir, "profiles", name>>

\* LocalStackStore.is_valid_url: the path after file:// exists and is a
\* directory.
LocalIsValidUrl(url, dirs) ==
    /\ Len(url) > 1
    /\ url[1] = "file"
    /\ SubSeq(url, 2, Len(url)) \in dirs

\* SqlStackStore.is_valid_url: make_url parses the string, which takes a
\* dialect in front; whether a database can be opened there is not checked.
SqlIsValidUrl(url) == Len(url) > 1 /\ url[1] = "sqlite"

CreateStoreUnvalidated(profile, dir, dirs) ==
    LET url == IF profile.service_url = NoUrl
               THEN GetLocalUrl(profile.store_type, dir, profile.name)
               ELSE profile.service_url
    IN  [res |-> "ok", profile |-> [profile EXCEPT !.service_url = url],
         store |-> <<[type |-> profile.store_type, url |-> url]>>]

\* Repository.create_store(profile) for a profile of the configuration in
\* directory `dir`: the URL is derived and assigned when the profile has
\* none, then checked by the store class of the profile's type, and only
\* then is the store constructed.  `store` is the store that was
\* constructed, if any.  A sqlite file in a directory that does not exist
\* cannot be opened.
CreateStore(profile, dir, dirs) ==
    LET url == IF profile.service_url = NoUrl
               THEN GetLocalUrl(profile.store_type, dir, profile.name)
               ELSE profile.service_url
        p == [profile EXCEPT !.service_url = url]
        valid == IF profile.store_type = "local"
                 THEN LocalIsValidUrl(url, dirs) ELSE SqlIsValidUrl(url)
    IN  IF ~valid
        THEN [res |-> "ValueError", profile |-> p, store |-> << >>]
        ELSE IF /\ profile.store_type = "sql"
                /\ Len(url) > 2
                /\ SubSeq(url, 2, Len(url) - 1) \notin dirs
        THEN [res |-> "OperationalError", profile |-> p, store |-> << >>]
        ELSE [res |-> "ok", profile |-> p,
              store |-> <<[type |-> profile.store_type, url |-> url]>>]

\* ConfigProfile.initialize: a profile with no service URL gets its
\* directory under the configuration it is bound to (the singleton's when
\* it is bound to none); then Repository.create_store(self).
ProfileInitialize(w, profile) ==
    LET cfg == IF profile.config = None THEN SingletonId ELSE profile.config
        dir == w.configs[cfg].path
        dirs == IF profile.service_url = NoUrl
                THEN Dirs(w) \cup {ProfileConfigPath(dir, profile.name)}
                ELSE Dirs(w)
        c == CreateStore(profile, dir, dirs)
    IN  [res |-> c.res, profile |-> c.profile, store |-> c.store,
         dirs |-> dirs]

AddOrUpdateProfileNoWrite(w, id, profile) ==
    [w |-> [w EXCEPT !.configs[id].doc.profiles =
              Put(@, profile.name, [profile EXCEPT !.config = id])],
     res |-> "ok", writes |-> 0, store |-> << >>, initialized |-> FALSE,
     argument |-> profile]

AddOrUpdateProfileReinitialized(w, id, profile) ==
    LET i == ProfileInitialize(w, [profile EXCEPT !.config = id])
        w1 == [w EXCEPT !.configs[id].doc.profiles =
                          Put(@, profile.name, i.profile)]
    IN  IF i.res # "ok"
        THEN [w |-> WithDirs(w, i.dirs), res |-> i.res, writes |-> 0,
              store |-> << >>, initialized |-> TRUE, argument |-> profile]
        ELSE [w |-> WithDirs(WriteConfig(w1, id), i.dirs), res |-> "ok",
              writes |-> 1, store |-> i.store, initialized |-> TRUE,
              argument |-> profile]

\* add_or_update_profile: the copy of the profile is bound to this
\* configuration, initialized when its name is new, stored and written; a
\* failed initialization leaves the profile map as it was.  `store` is the
\* store the initialization constructed, `initialized` tells whether
\* initialize() was called and `argument` is the caller's object after the
\* call: every assignment was made to the copy.
AddOrUpdateProfile(w, id, profile) ==
    LET copy == [profile EXCEPT !.config = id]
        new == profile.name \notin DOMAIN w.configs[id].doc.profiles
        i == ProfileInitialize(w, copy)
        p == IF new THEN i.profile ELSE copy
        w1 == [w EXCEPT !.configs[id].doc.profiles = Put(@, p.name, p)]
    IN  IF new /\ i.res # "ok"
        THEN [w |-> WithDirs(w, i.dirs), res |-> i.res, writes |-> 0,
              store |-> << >>, initialized |-> TRUE, argument |-> profile]
        ELSE [w |-> IF new THEN WithDirs(WriteConfig(w1, id), i.dirs)
                    ELSE WriteConfig(w1, id),
              res |-> "ok", writes |-> 1,
              store |-> IF new THEN i.store ELSE << >>,
              initialized |-> new, argument |-> profile]

\* get_profile: self.profiles.get(profile_name), None when absent.
GetProfile(w, id, profile_name) ==
    [w |-> w, res |-> "ok", writes |-> 0,
     value |-> IF profile_name \in DOMAIN w.configs[id].doc.profiles
               THEN w.configs[id].doc.profiles[profile_name] ELSE None]

\* activate_profile
ActivateProfile(w, id, profile_name) ==
    IF profile_name \notin DOMAIN w.configs[id].doc.profiles
    THEN [w |-> w, res |-> "KeyError", writes |-> 0]
    ELSE SetAttr(w, id, "active_profile_name",
                 [res |-> "ok", value |-> profile_name])

\* delete_profile
DeleteProfile(w, id, profile_name) ==
    IF profile_name \notin DOMAIN w.configs[id].doc.profiles
    THEN [w |-> w, res |-> "ValueError", writes |-> 0]
    ELSE [w |-> WriteConfig([w EXCEPT !.configs[id].doc.profiles =
                                        Del(@, profile_name)], id),
          res |-> "ok", writes |-> 1]

AddAndActivateDefaultProfileNever(w, id) ==
    [w |-> w, res |-> "ok", writes |-> 0]

\* _add_and_activate_default_profile
AddAndActivateDefaultProfile(w, id) ==
    IF DOMAIN w.configs[id].doc.profiles # {}
    THEN [w |-> w, res |-> "ok", writes |-> 0]
    ELSE LET a == AddOrUpdateProfile(
                     w, id, ConfigProfile(DEFAULT_PROFILE_NAME, NoUrl, "local"))
             b == ActivateProfile(a.w, id, DEFAULT_PROFILE_NAME)
         IN  [w |-> b.w, res |-> b.res, writes |-> a.writes + b.writes]

\* active_profile: whether self.profiles[self.active_profile_name] is there.
ActiveProfileResolves(doc) == doc.active_profile_name \in DOMAIN doc.profiles

GlobalConfigMetaClassCallShared(w, dir) ==
    IF SingletonId \in DOMAIN w.configs
    THEN [w |-> w, res |-> "ok", value |-> SingletonId, writes |-> 0]
    ELSE [w |-> GlobalConfigInit(w, SingletonId, DefaultConfigDirectory).w,
          res |-> "ok", value |-> SingletonId, writes |-> 0]

\* GlobalConfigMetaClass.__call__: with a path (dir # None) a new instance
\* is constructed and returned as loaded; with none the singleton is
\* returned, constructed, migrated and given its default profile the first
\* time.  The singleton is recorded before the migration runs.
GlobalConfigMetaClassCall(w, dir) ==
    IF dir # None
    THEN LET id == CHOOSE x \in ExplicitIds : x \notin DOMAIN w.configs
             i == GlobalConfigInit(w, id, dir)
         IN  [w |-> i.w, res |-> "ok", value |-> id, writes |-> i.writes]
    ELSE IF SingletonId \in DOMAIN w.configs
    THEN [w |-> w, res |-> "ok", value |-> SingletonId, writes |-> 0]
    ELSE LET i == GlobalConfigInit(w, SingletonId, DefaultConfigDirectory)
             m == MigrateConfig(i.w, SingletonId)
             p == AddAndActivateDefaultProfile(m.w, SingletonId)
         IN  IF m.res # "ok"
             THEN [w |-> m.w, res |-> m.res, value |-> None,
                   writes |-> i.writes + m.writes]
             ELSE [w |-> p.w, res |-> p.res, value |-> SingletonId,
                   writes |-> i.writes + m.writes + p.writes]

(***************************************************************************)
(* The state machine of the configuration: one process, the singleton and  *)
(* an instance constructed with a path, over the two directories.  The     *)
(* default directory starts empty, with a legacy file only, or with a      *)
(* config.yaml that this or another release wrote; the other directory     *)
(* starts empty.  The environment is an input of the calls that read it:   *)
(* `last.env` is the environment the call ran in.                          *)
(***************************************************************************)
CfgCall(op, id, key, arg, env, res, value, writes) ==
    [op |-> op, id |-> id, key |-> key, arg |-> arg, env |-> env,
     res |-> res, value |-> value, writes |-> writes]

ProfileNames == {DEFAULT_PROFILE_NAME, "p1"}

\* The profile callers add: "p1" on a SQL store with its URL.
InputProfiles == { ConfigProfile("p1", <<"sqlite", "p1.db">>, "sql") }

\* The strings the ZENML_<FIELD> variables are set to.
EnvValues(key) ==
    CASE key = "user_id" -> {"T9"}
      [] key = "analytics_opt_in" -> {"false", "maybe"}
      [] key = "version" -> {NewerVersion}
      [] key = "active_profile_name" -> {"p1"}

\* The environments of a call that reads the field `key`: the variable of
\* the field unset, or set to one of its strings.
Environments(key) ==
    {EmptyFn} \cup { Put(EmptyFn, key, raw) : raw \in EnvValues(key) }

\* The environments of the first GlobalConfig() call, whose migration
\* reads the version: ZENML_VERSION unset, or set to a release.
MigrationEnvironments ==
    {EmptyFn} \cup { Put(EmptyFn, "version", raw) :
                       raw \in {RunningVersion, NewerVersion} }

\* The values callers assign to fields.
WriteValues(key) ==
    CASE key = "user_id" -> {"T9"}
      [] key = "analytics_opt_in" -> {FALSE}

WrittenFields == {"user_id", "analytics_opt_in"}

StoredDocument(version, profile_names) ==
    [user_id |-> "T0",
     analytics_opt_in |-> TRUE,
     version |-> version,
     active_profile_name |-> IF profile_names = {} THEN None
                             ELSE DEFAULT_PROFILE_NAME,
     profiles |-> [n \in profile_names |->
                     [name |-> n,
                      service_url |-> GetLocalUrl("local",
                                                  DefaultConfigDirectory, n),
                      store_type |-> "local"]]]

\* What the default directory holds at first: nothing, a legacy file, the
\* document an instance constructed with a path wrote there (no version,
\* no profile), or the document of a release with its default profile.
PriorListings ==
    { EmptyFn,
      Put(EmptyFn, LEGACY_CONFIG_FILE_NAME,
          [user_id |-> "T0", analytics_opt_in |-> FALSE]),
      Put(EmptyFn, CONFIG_FILE_NAME, StoredDocument(None, {})) }
    \cup { Put(EmptyFn, CONFIG_FILE_NAME,
               StoredDocument(v, {DEFAULT_PROFILE_NAME})) : v \in Versions }

ConfigInit ==
    /\ backend = "local"
    /\ local = LocalInit
    /\ sql = SqlInit
    /\ last = CfgCall("init", None, None, None, EmptyFn, "ok", None, 0)
    /\ config_files \in { [d \in Locations |->
                             IF d = DefaultConfigDirectory THEN l ELSE EmptyFn] :
                          l \in PriorListings }
    /\ configs = EmptyFn
    /\ global_repository = FALSE
    /\ instances = EmptyFn

CfgApply(o) ==
    /\ config_files' = o.w.files
    /\ configs' = o.w.configs
    /\ UNCHANGED <<backend, local, sql, global_repository, instances>>

\* GlobalConfig()
CfgGlobalConfig ==
    \E env \in IF SingletonId \in DOMAIN configs THEN {EmptyFn}
                ELSE MigrationEnvironments :
        \E o \in {GlobalConfigMetaClassCall(W(env), None)} :
            /\ CfgApply(o)
            /\ last' = CfgCall("GlobalConfig", SingletonId, None, None, env,
                               o.res, o.value, o.writes)

\* GlobalConfig(config_path=dir)
CfgGlobalConfigAt ==
    \E dir \in Locations :
        /\ ExplicitIds \ DOMAIN configs # {}
        /\ \E o \in {GlobalConfigMetaClassCall(W(EmptyFn), dir)} :
               /\ CfgApply(o)
               /\ last' = CfgCall("GlobalConfigAt", o.value, None, dir,
                                  EmptyFn, o.res, o.value, o.writes)

\* value = config.<field>; the overrides are exercised on the singleton
CfgGetAttribute ==
    \E id \in DOMAIN configs, key \in Fields :
        \E env \in IF id = SingletonId THEN Environments(key)
                    ELSE {EmptyFn} :
            \E o \in {GetAttribute(W(env), id, key)} :
                /\ CfgApply(o)
                /\ last' = CfgCall("getattr", id, key, None, env, "ok",
                                   o.value, 0)

\* config.<field> = value
CfgSetAttr ==
    \E id \in DOMAIN configs, key \in WrittenFields :
        \E v \in WriteValues(key) :
            \E o \in {SetAttr(W(EmptyFn), id, key, [res |-> "ok", value |-> v])} :
                /\ CfgApply(o)
                /\ last' = CfgCall("setattr", id, key, v, EmptyFn, o.res,
                                   None, o.writes)

\* add_or_update_profile, on the singleton as the command line calls it
CfgAddOrUpdateProfile ==
    \E profile \in InputProfiles :
        /\ SingletonId \in DOMAIN configs
        /\ \E o \in {AddOrUpdateProfile(W(EmptyFn), SingletonId, profile)} :
               /\ CfgApply(o)
               /\ last' = CfgCall("add_or_update_profile", SingletonId,
                                  profile.name, profile, EmptyFn, o.res,
                                  None, o.writes)

\* activate_profile, on the singleton as the command line calls it
CfgActivateProfile ==
    \E name \in ProfileNames :
        /\ SingletonId \in DOMAIN configs
        /\ \E o \in {ActivateProfile(W(EmptyFn), SingletonId, name)} :
               /\ CfgApply(o)
               /\ last' = CfgCall("activate_profile", SingletonId, name, None,
                                  EmptyFn, o.res, None, o.writes)

\* delete_profile, on the singleton as the command line calls it
CfgDeleteProfile ==
    \E name \in ProfileNames :
        /\ SingletonId \in DOMAIN configs
        /\ \E o \in {DeleteProfile(W(EmptyFn), SingletonId, name)} :
               /\ CfgApply(o)
               /\ last' = CfgCall("delete_profile", SingletonId, name, None,
                                  EmptyFn, o.res, None, o.writes)

\* get_profile, on the singleton as the command line calls it
CfgGetProfile ==
    \E name \in ProfileNames :
        /\ SingletonId \in DOMAIN configs
        /\ \E o \in {GetProfile(W(EmptyFn), SingletonId, name)} :
               /\ CfgApply(o)
               /\ last' = CfgCall("get_profile", SingletonId, name, None,
                                  EmptyFn, o.res, o.value, o.writes)

ConfigNext ==
    \/ CfgGlobalConfig
    \/ CfgGlobalConfigAt
    \/ CfgGetAttribute
    \/ CfgSetAttr
    \/ CfgAddOrUpdateProfile
    \/ CfgActivateProfile
    \/ CfgDeleteProfile
    \/ CfgGetProfile

SpecConfig == ConfigInit /\ [][ConfigNext]_vars

\* A step that is a load: a construction that made a new instance.
IsLoad ==
    /\ last'.op \in {"GlobalConfig", "GlobalConfigAt"}
    /\ last'.id \notin DOMAIN configs
    /\ last'.id \in DOMAIN configs'

\* The directory a load reads.
LoadDirectory ==
    IF last'.op = "GlobalConfig" THEN DefaultConfigDirectory ELSE last'.arg

(***************************************************************************)
(* C13: every construction with no explicit location returns the same      *)
(* process-wide instance, which is initialized at most once (a later       *)
(* construction changes neither an instance nor a document); every         *)
(* construction with an explicit location produces a new instance,         *)
(* distinct from the singleton, and leaves the instances there are as      *)
(* they were; a later field write on such an instance does not change the  *)
(* fields of the singleton in memory.                                      *)
(***************************************************************************)
C13_SingletonContract ==
    [][ /\ (last'.op = "GlobalConfig" /\ last'.res = "ok")
           => /\ last'.value = SingletonId
              /\ SingletonId \in DOMAIN configs'
        /\ (last'.op = "GlobalConfig" /\ SingletonId \in DOMAIN configs)
           => /\ configs' = configs
              /\ config_files' = config_files
              /\ last'.writes = 0
        /\ last'.op = "GlobalConfigAt"
           => /\ last'.value # SingletonId
              /\ last'.value \notin DOMAIN configs
              /\ DOMAIN configs' = DOMAIN configs \cup {last'.value}
              /\ configs'[last'.value].path = last'.arg
              /\ \A i \in DOMAIN configs : configs'[i] = configs[i]
        /\ ( /\ last'.op = "setattr"
             /\ last'.id # SingletonId
             /\ SingletonId \in DOMAIN configs )
           => configs'[SingletonId] = configs[SingletonId]
      ]_vars

\* An instance constructed on the singleton's directory has opted out of
\* analytics by a field write; the singleton still has the flag set.
C13_Witness ==
    /\ last.op = "setattr"
    /\ last.id # SingletonId
    /\ last.res = "ok"
    /\ SingletonId \in DOMAIN configs
    /\ configs[last.id].path = configs[SingletonId].path
    /\ configs[last.id].doc.analytics_opt_in = FALSE
    /\ configs[SingletonId].doc.analytics_opt_in = TRUE

(***************************************************************************)
(* C14 as stated: every load of a GlobalConfig, of the singleton or of an  *)
(* instance with an explicit location, runs the migration and ensures      *)
(* that a profile exists: after a load that returns, the version is the    *)
(* running one (when no ZENML_VERSION shadows the stored version), the     *)
(* profile map is non-empty and the active profile name resolves in it.    *)
(***************************************************************************)
C14_EveryLoadMigratesAndHasProfile ==
    [][ (IsLoad /\ last'.res = "ok")
        => LET doc == configs'[last'.id].doc
           IN  /\ last'.env = EmptyFn => doc.version = RunningVersion
               /\ DOMAIN doc.profiles # {}
               /\ ActiveProfileResolves(doc)
      ]_vars

(***************************************************************************)
(* C14 amended: a load of the singleton that returns has run the           *)
(* migration (the version is the running one when no ZENML_VERSION         *)
(* shadows the stored version) and has a non-empty profile map; when the loaded document had no profiles, the map holds exactly    *)
(* the profile "default", which is the active one, and otherwise the       *)
(* profiles and the active profile name are the loaded ones.  A load of    *)
(* an instance with an explicit location returns the fields as they are    *)
(* stored: no migration runs and no profile is created.                    *)
(***************************************************************************)
C14_SingletonLoadMigratesAndHasProfile ==
    [][ IsLoad
        => LET doc == configs'[last'.id].doc
               loaded == LoadFields(W(EmptyFn), LoadDirectory)
           IN  /\ (last'.op = "GlobalConfig" /\ last'.res = "ok")
                  => /\ last'.env = EmptyFn => doc.version = RunningVersion
                     /\ DOMAIN doc.profiles # {}
                     /\ IF DOMAIN loaded.profiles = {}
                        THEN /\ DOMAIN doc.profiles = {DEFAULT_PROFILE_NAME}
                             /\ doc.active_profile_name = DEFAULT_PROFILE_NAME
                        ELSE /\ doc.profiles = loaded.profiles
                             /\ doc.active_profile_name =
                                  loaded.active_profile_name
               /\ last'.op = "GlobalConfigAt"
                  => /\ last'.res = "ok"
                     /\ doc = loaded
      ]_vars

\* The singleton was loaded from a directory with no document and has its
\* default profile; an instance was loaded from another directory with no
\* document, and has no version and no profile.
C14_Witness ==
    /\ last.op = "GlobalConfigAt"
    /\ SingletonId \in DOMAIN configs
    /\ configs[SingletonId].doc.user_id \in Tokens
    /\ DOMAIN configs[SingletonId].doc.profiles = {DEFAULT_PROFILE_NAME}
    /\ configs[SingletonId].doc.active_profile_name = DEFAULT_PROFILE_NAME
    /\ configs[last.id].path # DefaultConfigDirectory
    /\ configs[last.id].doc.version = None
    /\ DOMAIN configs[last.id].doc.profiles = {}

\* The identity token of the document config.yaml of a directory.
PersistedToken(files, dir) == files[dir][CONFIG_FILE_NAME].user_id

(***************************************************************************)
(* C15: a load from a directory with no config.yaml persists the token of  *)
(* the new instance before it returns (a freshly generated one when there  *)
(* is no legacy file either); a load from a directory that has a           *)
(* config.yaml returns the token persisted there; and no call (field       *)
(* write, profile operation, construction with its migration, read under   *)
(* an environment override) changes the token of an instance or the token  *)
(* persisted in a directory.                                               *)
(***************************************************************************)
C15_TokenDurability ==
    [][ /\ IsLoad
           => LET dir == LoadDirectory
                  token == configs'[last'.id].doc.user_id
              IN  /\ CONFIG_FILE_NAME \in DOMAIN config_files'[dir]
                  /\ PersistedToken(config_files', dir) = token
                  /\ IF CONFIG_FILE_NAME \in DOMAIN config_files[dir]
                     THEN token = PersistedToken(config_files, dir)
                     ELSE IF LEGACY_CONFIG_FILE_NAME \in DOMAIN config_files[dir]
                     THEN token = config_files[dir][LEGACY_CONFIG_FILE_NAME].user_id
                     ELSE token \notin UsedTokens(W(EmptyFn))
        /\ \A id \in DOMAIN configs :
              /\ id \in DOMAIN configs'
              /\ configs'[id].doc.user_id = configs[id].doc.user_id
        /\ \A dir \in Locations :
              CONFIG_FILE_NAME \in DOMAIN config_files[dir]
              => /\ CONFIG_FILE_NAME \in DOMAIN config_files'[dir]
                 /\ PersistedToken(config_files', dir) =
                      PersistedToken(config_files, dir)
      ]_vars

\* The singleton generated a token for a directory with no document, and a
\* later, independent load from that directory has returned the same token.
C15_Witness ==
    /\ last.op = "GlobalConfigAt"
    /\ SingletonId \in DOMAIN configs
    /\ configs[last.id].path = configs[SingletonId].path
    /\ configs[SingletonId].doc.user_id \in Tokens
    /\ configs[last.id].doc.user_id = configs[SingletonId].doc.user_id
    /\ PersistedToken(config_files, DefaultConfigDirectory) =
         configs[SingletonId].doc.user_id
    /\ "p1" \in DOMAIN configs[last.id].doc.profiles

\* The migration step of a first GlobalConfig() call: the world once
\* __init__ has returned, and the outcome of _migrate_config in it.
AfterInit == GlobalConfigInit(W(last'.env), SingletonId, DefaultConfigDirectory).w

Migration == MigrateConfig(AfterInit, SingletonId)

\* What a migration must do with the stored version `stored`.
MigrationContract(stored) ==
    LET m == Migration
        after == m.w.configs[SingletonId].doc.version
        persisted == m.w.files[DefaultConfigDirectory][CONFIG_FILE_NAME].version
    IN  /\ stored = None
           => m.res = "ok" /\ after = RunningVersion
        /\ (stored # None /\ VersionGreater(RunningVersion, stored))
           => /\ m.res = "ok"
              /\ after = RunningVersion
              /\ persisted = RunningVersion
        /\ (stored # None /\ stored = RunningVersion)
           => m.res = "ok" /\ m.writes = 0 /\ m.w = AfterInit
        /\ (stored # None /\ VersionGreater(stored, RunningVersion))
           => /\ m.res = "RuntimeError"
              /\ m.w = AfterInit
              /\ last'.res = "RuntimeError"
              /\ configs'[SingletonId].doc.version = stored
              /\ config_files'[DefaultConfigDirectory][CONFIG_FILE_NAME].version
                   = stored
        /\ m.res = "ok" => after = RunningVersion
        /\ last'.res = "ok"
           => configs'[SingletonId].doc.version = RunningVersion

(***************************************************************************)
(* C16 as stated: in the migration of a load of the singleton, an absent   *)
(* stored version becomes the running version, an older one is rewritten   *)
(* to the running version and persisted, an equal one has nothing          *)
(* written, and one that exceeds the running version fails the migration   *)
(* fatally with the stored and the persisted version unchanged; after any  *)
(* migration that returns normally the stored version is the running one.  *)
(***************************************************************************)
C16_Migration ==
    [][ (IsLoad /\ last'.op = "GlobalConfig")
        => MigrationContract(AfterInit.configs[SingletonId].doc.version)
      ]_vars

(***************************************************************************)
(* C17: add_or_update_profile, activate_profile and delete_profile on the  *)
(* singleton keep the stored active profile name resolving in the profile  *)
(* map: from a state where it resolves, each of them leads to a state      *)
(* where it resolves.                                                      *)
(***************************************************************************)
C17_ActiveProfileResolves ==
    [][ ( /\ last'.op \in {"add_or_update_profile", "activate_profile",
                           "delete_profile"}
          /\ last'.id = SingletonId
          /\ ActiveProfileResolves(configs[SingletonId].doc) )
        => ActiveProfileResolves(configs'[SingletonId].doc)
      ]_vars

\* The value a read of `key` returns under `env` when the override applies:
\* the converted string of the variable if it is set and converts, the
\* stored value otherwise.
OverriddenValue(doc, key, env) ==
    IF key \in DOMAIN env /\ Convert(key, env[key]).res = "ok"
    THEN Convert(key, env[key]).value
    ELSE doc[key]

(***************************************************************************)
(* C18: a read of a field returns the converted value of ZENML_<FIELD>     *)
(* when the variable is set and converts to the type of the field, and     *)
(* the stored value when it is unset or does not convert (so also in a     *)
(* later read, once the variable is removed); the read changes neither     *)
(* the fields in memory nor a persisted document.                          *)
(***************************************************************************)
C18_EnvOverrideRead ==
    [][ last'.op = "getattr"
        => /\ last'.value = OverriddenValue(configs[last'.id].doc, last'.key,
                                            last'.env)
           /\ configs' = configs
           /\ config_files' = config_files
      ]_vars

(***************************************************************************)
(* C19: the override shadows every top-level field: for the identity       *)
(* token, the analytics flag, the version and the active profile name, a   *)
(* read while the variable of the field is set to a string that converts   *)
(* to the type of the field returns the converted string.                  *)
(***************************************************************************)
C19_EveryFieldShadowed ==
    [][ \A key \in {"user_id", "analytics_opt_in", "version",
                    "active_profile_name"} :
          ( /\ last'.op = "getattr"
            /\ last'.key = key
            /\ key \in DOMAIN last'.env
            /\ Convert(key, last'.env[key]).res = "ok" )
          => last'.value = Convert(key, last'.env[key]).value
      ]_vars

(***************************************************************************)
(* C20: after every field write and every add_or_update_profile,           *)
(* activate_profile or delete_profile that returns, the document           *)
(* persisted in the directory of the instance equals the fields in memory  *)
(* (identity token, analytics flag, version, active profile name and the   *)
(* profile map by value), and loading it again yields a profile map equal  *)
(* by value.                                                               *)
(***************************************************************************)
C20_WriteThrough ==
    [][ ( /\ last'.op \in {"setattr", "add_or_update_profile",
                           "activate_profile", "delete_profile"}
          /\ last'.res = "ok" )
        => LET dir == configs'[last'.id].path
               doc == configs'[last'.id].doc
           IN  /\ CONFIG_FILE_NAME \in DOMAIN config_files'[dir]
               /\ config_files'[dir][CONFIG_FILE_NAME] = Serialize(doc)
               /\ last'.writes >= 1
               /\ Serialize(LoadFields(WNext, dir)) = Serialize(doc)
      ]_vars

\* The singleton has just added the profile "p1": it is in memory, bound
\* to the singleton, and in the persisted document.
C20_Witness ==
    /\ last.op = "add_or_update_profile"
    /\ last.res = "ok"
    /\ "p1" \in DOMAIN configs[SingletonId].doc.profiles
    /\ configs[SingletonId].doc.profiles["p1"].config = SingletonId
    /\ "p1" \in DOMAIN config_files[DefaultConfigDirectory][CONFIG_FILE_NAME].profiles

(***************************************************************************)
(* C21: activate_profile(n) and delete_profile(n) for a name n that is not *)
(* in the profile map both fail with the key-absent error (KeyError) and   *)
(* leave the instances and the documents on disk unchanged; get_profile(n) *)
(* for an absent n returns None with no error and changes nothing.         *)
(***************************************************************************)
C21_ProfileLookupFailures ==
    [][ (/\ last'.op \in {"activate_profile", "delete_profile", "get_profile"}
         /\ last'.key \notin DOMAIN configs[last'.id].doc.profiles)
        => /\ configs' = configs
           /\ config_files' = config_files
           /\ last'.writes = 0
           /\ last'.op \in {"activate_profile", "delete_profile"}
                => last'.res = "KeyError"
           /\ last'.op = "get_profile"
                => (last'.res = "ok" /\ last'.value = None) ]_vars

(***************************************************************************)
(* C22: constructing the Repository while a pipeline step is running       *)
(* always fails with ForbiddenRepositoryAccessError, also when the         *)
(* singleton exists already; the failed construction neither creates nor   *)
(* replaces the singleton and leaves the store as it was.                  *)
(***************************************************************************)
C22_ForbiddenInStep ==
    [][ (last'.op = "Repository" /\ last'.step_is_running)
        => /\ last'.res = "ForbiddenRepositoryAccessError"
           /\ global_repository' = global_repository
           /\ StoreUnchanged
           /\ last'.events = NoEvents ]_vars

\* The construction was refused in a process that holds the singleton.
C22_Witness ==
    /\ last.op = "Repository"
    /\ last.step_is_running
    /\ last.res = "ForbiddenRepositoryAccessError"
    /\ global_repository
    /\ StackSet(St) # {}

(***************************************************************************)
(* C23: the first construction of the Repository in a process, on a store  *)
(* with no stack, registers exactly one stack, "default", made of an       *)
(* orchestrator, an artifact store and a metadata store, and activates it: *)
(* when it returns the store has a stack and the active stack name is that *)
(* of a registered stack.  On a store that has stacks it registers         *)
(* nothing and leaves the active pointer as it was.                        *)
(***************************************************************************)
C23_FirstConstruction ==
    [][ ( /\ last'.op = "Repository"
          /\ ~last'.step_is_running
          /\ ~global_repository )
        => LET opened == RepositoryInit(St)
           IN  IF StackSet(opened) = {}
               THEN /\ last'.res = "ok"
                    /\ global_repository'
                    /\ StackSet(St') = {DefaultLocalStack.name}
                    /\ { m[1] : m \in StoredMapping(St', DefaultLocalStack.name) }
                         = {"orchestrator", "artifact_store", "metadata_store"}
                    /\ ActivePointer(St') = DefaultLocalStack.name
                    /\ ActiveStackRegistered(St')
               ELSE /\ StackSet(St') = StackSet(opened)
                    /\ \A n \in StackSet(opened) :
                         StoredMapping(St', n) = StoredMapping(opened, n)
                    /\ ComponentRecords(St') = ComponentRecords(opened)
                    /\ ActivePointer(St') = ActivePointer(opened)
                    /\ last'.events = NoEvents ]_vars

\* The construction on the empty store has registered and activated the
\* default stack.
C23_Witness ==
    /\ last.op = "Repository"
    /\ last.res = "ok"
    /\ last.events = <<"REGISTERED_STACK", "SET_STACK", "INITIALIZE_REPO">>
    /\ global_repository
    /\ StackSet(St) = {DefaultLocalStack.name}
    /\ ActivePointer(St) = DefaultLocalStack.name

(***************************************************************************)
(* C24: each of register_stack, deregister_stack,                          *)
(* register_stack_component, deregister_stack_component and activate_stack *)
(* of the Repository emits exactly one analytics event when the store's    *)
(* operation has succeeded and none when it failed.                        *)
(***************************************************************************)
C24_OneEventPerMutation ==
    [][ last'.op \in {"register_stack", "deregister_stack",
                      "register_stack_component",
                      "deregister_stack_component", "activate_stack"}
        => /\ last'.res = "ok" => Len(last'.events) = 1
           /\ last'.res # "ok" => last'.events = NoEvents ]_vars

(***************************************************************************)
(* C25: on both backends get_stack_configuration(n) of a registered stack  *)
(* n returns exactly the type -> name mapping passed to the register_stack *)
(* call that created n: it is that mapping when the registration returns,  *)
(* and no call other than a registration or deregistration of n changes    *)
(* what the read returns, whatever other components exist and whatever     *)
(* stacks were registered under the name before.                           *)
(***************************************************************************)
C25_ConfigurationRoundTrip ==
    [][ /\ (last'.op = "register_stack" /\ last'.res = "ok")
           => GetStackConfiguration(St', last'.name) =
                { [res |-> "ok",
                   cfg |-> StackConfigurationOf(last'.stack.components)] }
        /\ \A n \in StackSet(St) \cap StackSet(St') :
             ~(last'.op \in {"register_stack", "deregister_stack"}
               /\ last'.name = n)
             => GetStackConfiguration(St', n) = GetStackConfiguration(St, n)
      ]_vars

(***************************************************************************)
(* C26: a stack name can be used again once its stack is deregistered: on  *)
(* either backend a register_stack with the name of the stack that the    *)
(* call before it deregistered succeeds, with the components that stack    *)
(* had or with others (a component whose name is held by another token     *)
(* aside), and the configuration of the new stack holds the components     *)
(* given now and no other.                                                 *)
(***************************************************************************)
C26_NameReusable ==
    [][ ( /\ last.op = "deregister_stack"
          /\ last.res = "ok"
          /\ last'.op = "register_stack"
          /\ last'.name = last.name
          /\ last'.res # "StackComponentExistsError" )
        => /\ last'.res = "ok"
           /\ GetStackConfiguration(St', last'.name) =
                { [res |-> "ok",
                   cfg |-> StackConfigurationOf(last'.stack.components)] }
           /\ StoredMapping(St', last'.name) =
                { <<last'.stack.components[i].type,
                    last'.stack.components[i].name>> :
                  i \in 1..Len(last'.stack.components) } ]_vars

(***************************************************************************)
(* C27: deregister_stack(n) of a registered stack n that is not the active *)
(* stack succeeds, removes n and leaves every other stack, every component *)
(* record and the active pointer as they were, also when no active stack   *)
(* is configured.                                                          *)
(***************************************************************************)
C27_DeregisterFrame ==
    [][ ( /\ last'.op = "deregister_stack"
          /\ last'.name \in StackSet(St)
          /\ last'.name # ActivePointer(St) )
        => /\ last'.res = "ok"
           /\ StackSet(St') = StackSet(St) \ {last'.name}
           /\ \A s \in StackSet(St') :
                StoredMapping(St', s) = StoredMapping(St, s)
           /\ ComponentRecords(St') = ComponentRecords(St)
           /\ ActivePointer(St') = ActivePointer(St) ]_vars

(***************************************************************************)
(* C28: get_stack_component(t, n) fails with KeyError exactly when no      *)
(* record (t, n) is registered and changes nothing; otherwise it returns a *)
(* record whose type, name, flavor and identity token are those given when *)
(* (t, n) was registered: a record that a call registers reads back as     *)
(* the component the call was given, and no later call changes what the    *)
(* lookup of a record that stays registered returns.                       *)
(***************************************************************************)
SameComponent(a, b) ==
    /\ a.type = b.type
    /\ a.name = b.name
    /\ a.flavor = b.flavor
    /\ a.uuid = b.uuid

MutatingOperations ==
    {"register_stack", "deregister_stack", "register_stack_component",
     "deregister_stack_component", "activate_stack"}

\* The (type, name) pairs of the registry of a StackStoreModel.
Registry(model) ==
    UNION { { <<t, n>> : n \in DOMAIN model.stack_components[t] } :
            t \in ComponentTypes }

C29_LocalWriteThrough ==
    [][ (backend = "local" /\ last'.op \in MutatingOperations)
        => /\ local'.mem # local.mem => local'.disk = <<local'.mem>>
           /\ LocalStackStoreInit(local').mem = local'.mem
           /\ DOMAIN local'.files = Registry(local'.mem)
           /\ local'.disk # << >>
                => DOMAIN local'.files = Registry(local'.disk[1]) ]_vars

\* A component was deregistered while another one stays registered.
C29_Witness ==
    /\ backend = "local"
    /\ last.op = "deregister_stack_component"
    /\ last.res = "ok"
    /\ local.disk = <<local.mem>>
    /\ <<last.type, last.name>> \notin DOMAIN local.files
    /\ DOMAIN local.files # {}

(***************************************************************************)
(* C30: with two LocalStackStore instances open on one directory, every    *)
(* call that changes the model of an instance or the index document leaves *)
(* on disk the complete model of the calling instance, whatever the other  *)
(* instance had written: the last writer wins.  What the other instance    *)
(* registered after the writer loaded its model is then missing from the   *)
(* index (the witness: a stack that was registered with success and never  *)
(* deregistered is not in the index).                                      *)
(***************************************************************************)
C30_LastWriterWins ==
    [][ ( /\ last'.op \in MutatingOperations
          /\ \/ local'.disk # local.disk
             \/ instances'[last'.instance] # instances[last'.instance] )
        => /\ local'.disk = <<instances'[last'.instance]>>
           /\ \A j \in DOMAIN instances \ {last'.instance} :
                instances'[j] = instances[j] ]_vars

\* Instance j has just registered a stack and the index is its model; the
\* stack s that the other instance registered is not in the index.  No
\* stack was ever activated, so no deregistration has succeeded and s was
\* lost to the overwrite.
C30_Witness ==
    \E i, j \in DOMAIN instances :
        /\ i # j
        /\ last.instance = j
        /\ last.op = "register_stack"
        /\ last.res = "ok"
        /\ local.disk = <<instances[j]>>
        /\ instances[i].active_stack_name = None
        /\ instances[j].active_stack_name = None
        /\ \E s \in DOMAIN instances[i].stacks :
             /\ s \notin DOMAIN local.disk[1].stacks
             /\ instances[i].stacks[s]["orchestrator"] = "c1"

(***************************************************************************)
(* Two processes on one relational database.  register_stack is a sequence *)
(* of statements, each its own session: the existence check, per component *)
(* a lookup and possibly an insert, and the transaction of _create_stack.  *)
(* The statements of the two processes interleave; instances[p] is the     *)
(* position of process p in its call.                                      *)
(***************************************************************************)
Processes == {"p", "q"}

NoStack == [name |-> None, components |-> << >>]

Idle == [pc |-> "idle", stack |-> NoStack, i |-> 0, res |-> None]

Returned(proc, res) == [proc EXCEPT !.pc = "done", !.res = res]

\* The store the processes share.
RaceStore == [backend |-> "sql", local |-> local, sql |-> sql]

\* The first statement of register_stack: get_stack(stack.name), and the
\* StackExistsError when it finds the name.
RegisterStackBegin(st, stack) ==
    { IF found = "ok"
      THEN [st |-> st, proc |-> Returned([Idle EXCEPT !.stack = stack],
                                         "StackExistsError")]
      ELSE IF found # "KeyError"
      THEN [st |-> st, proc |-> Returned([Idle EXCEPT !.stack = stack], found)]
      ELSE [st |-> st, proc |-> [pc |-> "check", stack |-> stack, i |-> 1,
                                 res |-> None]]
      : found \in GetStack(st, stack.name) }

\* The next statement of a register_stack call that passed the existence
\* check: __check_component's lookup of component i, its
\* register_stack_component, or, after the last component, _create_stack.
RegisterStackStep(st, proc) ==
    LET components == proc.stack.components
    IN  IF proc.pc = "check" /\ proc.i <= Len(components)
        THEN LET component == components[proc.i]
                 existing == GetStackComponent(st, component.type,
                                               component.name)
             IN  IF existing.res = "ok"
                 THEN IF existing.component.uuid # component.uuid
                      THEN [st |-> st,
                            proc |-> Returned(proc,
                                              "StackComponentExistsError")]
                      ELSE [st |-> st, proc |-> [proc EXCEPT !.i = @ + 1]]
                 ELSE IF existing.res = "KeyError"
                      THEN [st |-> st, proc |-> [proc EXCEPT !.pc = "register"]]
                      ELSE [st |-> st, proc |-> Returned(proc, existing.res)]
        ELSE IF proc.pc = "register"
        THEN LET r == RegisterStackComponent(st, components[proc.i])
             IN  IF r.res = "ok"
                 THEN [st |-> r.st,
                       proc |-> [proc EXCEPT !.pc = "check", !.i = @ + 1]]
                 ELSE [st |-> r.st, proc |-> Returned(proc, r.res)]
        ELSE LET r == CreateStack(st, proc.stack.name,
                                  StackConfigurationOf(components))
             IN  [st |-> r.st, proc |-> Returned(proc, r.res)]

\* The stacks the two processes register: without components, or with the
\* orchestrator "c1" under one of two identity tokens.
RaceStacks ==
    { stack \in BothStacks :
        \A i \in 1..Len(stack.components) :
            /\ stack.components[i].type = "orchestrator"
            /\ stack.components[i].flavor = "f1" }

RaceCall(p, statement, stack, res) ==
    [process |-> p, statement |-> statement, stack |-> stack, res |-> res]

RaceInit ==
    /\ backend = "sql"
    /\ local = LocalInit
    /\ sql = SqlInit
    /\ last = RaceCall(None, "init", NoStack, None)
    /\ config_files = EmptyFn
    /\ configs = EmptyFn
    /\ global_repository = FALSE
    /\ instances = [p \in Processes |-> Idle]

RaceNext ==
    \* a process calls register_stack: the existence check
    \/ \E p \in Processes, stack \in RaceStacks :
           /\ instances[p].pc \in {"idle", "done"}
           /\ \E o \in RegisterStackBegin(RaceStore, stack) :
                  /\ instances' = [instances EXCEPT ![p] = o.proc]
                  /\ last' = RaceCall(p, "get_stack", stack, o.proc.res)
           /\ UNCHANGED <<backend, local, sql, config_files, configs,
                          global_repository>>
    \* a process between two statements of its call executes the next one
    \/ \E p \in Processes :
           /\ instances[p].pc \in {"check", "register"}
           /\ LET o == RegisterStackStep(RaceStore, instances[p])
              IN  /\ instances' = [instances EXCEPT ![p] = o.proc]
                  /\ sql' = o.st.sql
                  /\ last' = RaceCall(p,
                        IF instances[p].pc = "register"
                        THEN "register_stack_component"
                        ELSE IF instances[p].i <= Len(instances[p].stack.components)
                        THEN "get_stack_component"
                        ELSE "_create_stack",
                        instances[p].stack, o.proc.res)
           /\ UNCHANGED <<backend, local, config_files, configs,
                          global_repository>>

SpecRace == RaceInit /\ [][RaceNext]_vars


(***************************************************************************)
(* A session: the processes that use one configuration directory, one      *)
(* after the other.  config_files is the directory's documents, configs    *)
(* the GlobalConfig instances of the running process, global_repository    *)
(* whether its Repository singleton exists, and instances the rest:        *)
(* `dirs` the directories there are, `repository` the store the singleton  *)
(* holds and `object` the profile object the caller last passed to         *)
(* add_or_update_profile.  No ZENML_ variable is set.                      *)
(***************************************************************************)
SW ==
    [files |-> config_files, configs |-> configs, environ |-> EmptyFn,
     dirs |-> instances.dirs]

RepositoryLoadRebinding(w, global, repository) ==
    LET doc == w.configs[SingletonId].doc
        c == CreateStore(doc.profiles[doc.active_profile_name],
                         w.configs[SingletonId].path, Dirs(w))
    IN  IF ActiveProfileResolves(doc) /\ c.res = "ok"
        THEN [w |-> w, res |-> "ok", global |-> TRUE,
              repository |-> c.store, store |-> c.store]
        ELSE [w |-> w, res |-> "KeyError", global |-> global,
              repository |-> repository, store |-> << >>]

\* Repository() in a process whose GlobalConfig singleton is loaded:
\* RepositoryMetaClass.__call__ outside of a step, with Repository.__init__
\* on the first call: the store of GlobalConfig().active_profile is created
\* and held.  create_store assigns the derived URL to the profile object of
\* the configuration.  When __init__ raises, no singleton is recorded.
RepositoryLoad(w, global, repository) ==
    LET doc == w.configs[SingletonId].doc
        name == doc.active_profile_name
        c == CreateStore(doc.profiles[name], w.configs[SingletonId].path,
                         Dirs(w))
    IN  IF global
        THEN [w |-> w, res |-> "ok", global |-> TRUE,
              repository |-> repository, store |-> << >>]
        ELSE IF ~ActiveProfileResolves(doc)
        THEN [w |-> w, res |-> "KeyError", global |-> FALSE,
              repository |-> << >>, store |-> << >>]
        ELSE [w |-> [w EXCEPT !.configs[SingletonId].doc.profiles[name] =
                                 c.profile],
              res |-> c.res, global |-> (c.res = "ok"),
              repository |-> c.store, store |-> c.store]

\* The command `profile set NAME` (set_active_profile) after its
\* cfg = GlobalConfig(): nothing is done when NAME is the active profile
\* name; else NAME is activated and the Repository loaded, and when that
\* raises the name read at the start is activated again and the exception
\* re-raised (an exception of this second activation replaces it).  The
\* message printed in between is taken to return.  `writes` counts the runs
\* of _write_config.
SetActiveProfile(w, global, repository, name) ==
    LET current == GetAttribute(w, SingletonId, "active_profile_name").value
        a == ActivateProfile(w, SingletonId, name)
        r == RepositoryLoad(a.w, global, repository)
        b == ActivateProfile(r.w, SingletonId, current)
        unchanged(res) ==
            [w |-> w, res |-> res, writes |-> 0, global |-> global,
             repository |-> repository, store |-> << >>]
    IN  IF current = name THEN unchanged("ok")
        ELSE IF a.res # "ok" THEN unchanged(a.res)
        ELSE IF r.res = "ok"
        THEN [w |-> r.w, res |-> "ok", writes |-> a.writes,
              global |-> r.global, repository |-> r.repository,
              store |-> r.store]
        ELSE [w |-> b.w, res |-> IF b.res = "ok" THEN r.res ELSE b.res,
              writes |-> a.writes + b.writes, global |-> r.global,
              repository |-> r.repository, store |-> r.store]

\* The outcome of a call whose GlobalConfig() raised.
NotLoaded(g, global, repository) ==
    [w |-> g.w, res |-> g.res, writes |-> 0, global |-> global,
     repository |-> repository, store |-> << >>]

SessionCall(op, name, arg, res, writes, store, initialized) ==
    [op |-> op, name |-> name, arg |-> arg, res |-> res, writes |-> writes,
     store |-> store, initialized |-> initialized]

\* The profiles callers pass: "p1" on either store type, with no URL, with
\* a URL of its store type and with one that its store type rejects.
SessionProfiles ==
    { ConfigProfile("p1", NoUrl, "local"),
      ConfigProfile("p1", <<"file", "data">>, "local"),
      ConfigProfile("p1", <<"file", "missing">>, "local"),
      ConfigProfile("p1", <<"sqlite", "p1.db">>, "sql"),
      ConfigProfile("p1", <<"p1.db">>, "sql") }

\* A process starts on an empty configuration directory.
SessionInit ==
    /\ backend = "local"
    /\ local = LocalInit
    /\ sql = SqlInit
    /\ last = SessionCall("init", None, None, "ok", 0, << >>, FALSE)
    /\ config_files = [d \in Locations |-> EmptyFn]
    /\ configs = EmptyFn
    /\ global_repository = FALSE
    /\ instances = [dirs |-> ExistingDirectories, repository |-> << >>,
                    object |-> << >>]

SessionApply(o) ==
    /\ config_files' = o.w.files
    /\ configs' = o.w.configs
    /\ UNCHANGED <<backend, local, sql>>

\* The paths a copied configuration is declared to be loaded from: the
\* one it is saved at (None) or a path of a container image.
LoadConfigPaths == {None, "image"}

\* str.replace(old, new) on the parts of a URL
Replace(url, old, new) ==
    [i \in DOMAIN url |-> IF url[i] = old THEN new ELSE url[i]]

\* The end of copy_config_with_active_profile, from shutil.copytree on:
\* the directory of the active profile is copied under the copy's
\* directory, the URL of the copy's profile becomes the source's with the
\* configuration path replaced, and the copy is written.
CopyProfile(w, id, copy, load_config_path) ==
    LET self == w.configs[id]
        name == self.doc.active_profile_name
        url == self.doc.profiles[name].service_url
        path == IF load_config_path = None THEN w.configs[copy].path
                ELSE load_config_path
        dirs == Dirs(w) \cup {ProfileConfigPath(w.configs[copy].path, name)}
    IN  IF ProfileConfigPath(self.path, name) \notin Dirs(w)
        THEN [w |-> w, res |-> "FileNotFoundError"]
        ELSE IF url = NoUrl
        THEN [w |-> WithDirs(w, dirs), res |-> "AttributeError"]
        ELSE [w |-> WriteConfig(
                      WithDirs([w EXCEPT
                                  !.configs[copy].doc.profiles[name].service_url
                                      = Replace(url, self.path, path)],
                               dirs), copy),
              res |-> "ok"]

CopyConfigWithAllProfiles ==
    \E config_path \in Locations \ {DefaultConfigDirectory} :
        /\ SingletonId \in DOMAIN configs
        /\ ExplicitIds \ DOMAIN configs # {}
        /\ \E g \in {GlobalConfigMetaClassCall(
                       [SW EXCEPT !.files[config_path] =
                          Put(@, CONFIG_FILE_NAME,
                              Serialize(configs[SingletonId].doc))],
                       config_path)} :
               /\ SessionApply(g)
               /\ UNCHANGED <<global_repository, instances>>
               /\ last' = SessionCall("copy_config_with_active_profile",
                                      config_path, None, g.res, 0, << >>,
                                      FALSE)

\* GlobalConfig().copy_config_with_active_profile(config_path,
\* load_config_path), statement by statement; the first exception ends it.
CopyConfigWithActiveProfile ==
    \E config_path \in Locations \ {DefaultConfigDirectory},
       load_config_path \in LoadConfigPaths :
        /\ SingletonId \in DOMAIN configs
        /\ ExplicitIds \ DOMAIN configs # {}
        /\ \E g \in {GlobalConfigMetaClassCall(
                       [SW EXCEPT !.files[config_path] =
                          Put(@, CONFIG_FILE_NAME,
                              Serialize(configs[SingletonId].doc))],
                       config_path)} :
           \E s \in {SetAttr(g.w, g.value, "profiles",
                             [res |-> "ok", value |-> EmptyFn])} :
           \E a \in {IF ~ActiveProfileResolves(configs[SingletonId].doc)
                     THEN [w |-> s.w, res |-> "KeyError"]
                     ELSE AddOrUpdateProfile(s.w, g.value,
                            configs[SingletonId].doc.profiles[
                              configs[SingletonId].doc.active_profile_name])} :
           \E b \in {IF a.res # "ok" THEN [w |-> a.w, res |-> a.res]
                     ELSE ActivateProfile(a.w, g.value,
                            configs[SingletonId].doc.active_profile_name)} :
           \E o \in {IF b.res # "ok" THEN [w |-> b.w, res |-> b.res]
                     ELSE CopyProfile(b.w, SingletonId, g.value,
                                      load_config_path)} :
               /\ SessionApply(o)
               /\ instances' = [instances EXCEPT !.dirs = Dirs(o.w)]
               /\ UNCHANGED global_repository
               /\ last' = SessionCall("copy_config_with_active_profile",
                                      config_path, load_config_path, o.res, 0,
                                      << >>, FALSE)

\* GlobalConfig()
SessionGlobalConfig ==
    \E o \in {GlobalConfigMetaClassCall(SW, None)} :
        /\ SessionApply(o)
        /\ instances' = [instances EXCEPT !.dirs = Dirs(o.w)]
        /\ UNCHANGED global_repository
        /\ last' = SessionCall("GlobalConfig", None, None, o.res, o.writes,
                               << >>, FALSE)

\* GlobalConfig().add_or_update_profile(profile)
SessionAddOrUpdateProfile ==
    \E profile \in SessionProfiles :
        /\ SingletonId \in DOMAIN configs
        /\ \E o \in {AddOrUpdateProfile(SW, SingletonId, profile)} :
               /\ SessionApply(o)
               /\ instances' = [instances EXCEPT !.dirs = Dirs(o.w),
                                                 !.object = <<o.argument>>]
               /\ UNCHANGED global_repository
               /\ last' = SessionCall("add_or_update_profile",
                                      profile.name, profile, o.res,
                                      o.writes, o.store, o.initialized)

\* the caller assigns another URL to the profile object it passed
SessionAssignProfile ==
    \E profile \in SessionProfiles :
        /\ instances.object # << >>
        /\ instances.object[1] # profile
        /\ instances' = [instances EXCEPT !.object = <<profile>>]
        /\ UNCHANGED <<backend, local, sql, config_files, configs,
                       global_repository>>
        /\ last' = SessionCall("profile.service_url =", profile.name,
                               profile, "ok", 0, << >>, FALSE)

\* GlobalConfig().activate_profile(name)
SessionActivateProfile ==
    \E name \in ProfileNames :
        /\ SingletonId \in DOMAIN configs
        /\ \E o \in {ActivateProfile(SW, SingletonId, name)} :
               /\ SessionApply(o)
               /\ UNCHANGED <<global_repository, instances>>
               /\ last' = SessionCall("activate_profile", name, None,
                                      o.res, o.writes, << >>, FALSE)

\* GlobalConfig().delete_profile(name)
SessionDeleteProfile ==
    \E name \in ProfileNames :
        /\ SingletonId \in DOMAIN configs
        /\ \E o \in {DeleteProfile(SW, SingletonId, name)} :
               /\ SessionApply(o)
               /\ UNCHANGED <<global_repository, instances>>
               /\ last' = SessionCall("delete_profile", name, None,
                                      o.res, o.writes, << >>, FALSE)

\* Repository()
SessionRepository ==
    \E g \in {GlobalConfigMetaClassCall(SW, None)} :
    \E o \in {IF g.res # "ok"
              THEN NotLoaded(g, global_repository, instances.repository)
              ELSE RepositoryLoad(g.w, global_repository,
                                  instances.repository)} :
        /\ SessionApply(o)
        /\ global_repository' = o.global
        /\ instances' = [instances EXCEPT !.dirs = Dirs(o.w),
                                          !.repository = o.repository]
        /\ last' = SessionCall("Repository", None, None, o.res, 0,
                               o.store, FALSE)

\* the command `profile set NAME`
SessionSetActiveProfile ==
    \E name \in ProfileNames :
        \E g \in {GlobalConfigMetaClassCall(SW, None)} :
        \E o \in {IF g.res # "ok"
                  THEN NotLoaded(g, global_repository,
                                 instances.repository)
                  ELSE SetActiveProfile(g.w, global_repository,
                                        instances.repository, name)} :
            /\ SessionApply(o)
            /\ global_repository' = o.global
            /\ instances' = [instances EXCEPT !.dirs = Dirs(o.w),
                                              !.repository = o.repository]
            /\ last' = SessionCall("set_active_profile", name, None,
                                   o.res, o.writes, o.store, FALSE)

\* the process ends and another one starts
SessionExit ==
    /\ configs # EmptyFn
    /\ configs' = EmptyFn
    /\ global_repository' = FALSE
    /\ instances' = [instances EXCEPT !.repository = << >>,
                                      !.object = << >>]
    /\ UNCHANGED <<backend, local, sql, config_files>>
    /\ last' = SessionCall("exit", None, None, "ok", 0, << >>, FALSE)

SessionNext ==
    \/ SessionGlobalConfig
    \/ SessionAddOrUpdateProfile
    \/ SessionAssignProfile
    \/ SessionActivateProfile
    \/ SessionDeleteProfile
    \/ SessionRepository
    \/ SessionSetActiveProfile
    \/ SessionExit

SpecSession == SessionInit /\ [][SessionNext]_vars

\* The export of a configuration: a process that loads the configuration,
\* adds and activates profiles and exports.
ExportNext ==
    \/ SessionGlobalConfig
    \/ SessionAddOrUpdateProfile
    \/ SessionActivateProfile
    \/ SessionDeleteProfile
    \/ CopyConfigWithActiveProfile

SpecExport == SessionInit /\ [][ExportNext]_vars

\* C31: on the relational backend, with the statements of two register_stack
\* calls interleaved in every way, a _create_stack that commits found no row
\* of that name, leaves exactly one, and the other process's call of the same
\* name has not returned success: the primary key rejects the second insert.
C31_CheckThenActRace ==
    [][ (last'.statement = "_create_stack" /\ last'.res = "ok") =>
          LET name == last'.stack.name
          IN  /\ name \notin SqlStackNames(sql)
              /\ Cardinality({ s \in sql'.zenstack : s.name = name }) = 1
              /\ \A q \in Processes \ {last'.process} :
                     ~ /\ instances'[q].res = "ok"
                       /\ instances'[q].stack.name = name ]_vars

\* Both processes passed the existence check for the same name before
\* either wrote: one call returned success, the other the rejected insert.
C31_Witness ==
    /\ instances["p"].stack.name = instances["q"].stack.name
    /\ instances["p"].pc = "done" /\ instances["p"].res = "ok"
    /\ instances["q"].pc = "done" /\ instances["q"].res = "IntegrityError"
    /\ Cardinality({ s \in sql.zenstack :
                       s.name = instances["p"].stack.name }) = 1

(***************************************************************************)
(* C32: add_or_update_profile initializes the backend of a profile exactly *)
(* when the profile's name is not in the profile map.  With a name that is *)
(* in the map the call succeeds, the stored profile becomes the one passed *)
(* (by value), no store is constructed and no directory made.  No call     *)
(* changes the active profile name, in the instance or in its document.    *)
(* The caller keeps the object it passed, unbound and as it was, and a     *)
(* later change of that object changes no instance and no document.        *)
(***************************************************************************)
C32_AddOrUpdateProfile ==
    [][ /\ last'.op = "add_or_update_profile" =>
            LET profile == last'.arg
                before == configs[SingletonId].doc
                after == configs'[SingletonId].doc
                known == profile.name \in DOMAIN before.profiles
            IN  /\ last'.initialized = ~known
                /\ known =>
                     /\ last'.res = "ok"
                     /\ SerializeProfile(after.profiles[profile.name])
                          = SerializeProfile(profile)
                     /\ last'.store = << >>
                     /\ instances'.dirs = instances.dirs
                /\ after.active_profile_name = before.active_profile_name
                /\ ReadConfig(WNext, DefaultConfigDirectory).active_profile_name
                     = ReadConfig(W(EmptyFn), DefaultConfigDirectory)
                         .active_profile_name
                /\ instances'.object = <<profile>>
        /\ last'.op = "profile.service_url =" =>
            /\ configs' = configs
            /\ config_files' = config_files ]_vars

\* "p1", a name of the map, was passed again without a URL: it is stored
\* without one and was not initialized, and the active profile is the
\* default one as before.
C32_Witness ==
    /\ last.op = "add_or_update_profile"
    /\ last.res = "ok"
    /\ ~last.initialized
    /\ last.arg.service_url = NoUrl
    /\ configs[SingletonId].doc.profiles["p1"].service_url = NoUrl
    /\ configs[SingletonId].doc.active_profile_name = DEFAULT_PROFILE_NAME

(***************************************************************************)
(* C33: copy_config_with_active_profile that returns leaves, at the new    *)
(* location, a GlobalConfig instance other than the source and its         *)
(* document: the profile map of both holds exactly the source's active     *)
(* profile (its name and store type; its URL is the source's with the      *)
(* configuration path replaced), that profile is the active one, and the   *)
(* identity token is the source's.  Whether it returns or raises, the      *)
(* source instance and the document at the source location are unchanged.  *)
(***************************************************************************)
C33_CopyWithActiveProfile ==
    [][ last'.op = "copy_config_with_active_profile" =>
          LET self == configs[SingletonId]
              name == self.doc.active_profile_name
              id == CHOOSE x \in DOMAIN configs' : x \notin DOMAIN configs
              copy == configs'[id]
              stored == ReadConfig(WNext, last'.name)
          IN  /\ configs'[SingletonId] = self
              /\ config_files'[self.path] = config_files[self.path]
              /\ last'.res = "ok" =>
                   /\ id # SingletonId
                   /\ copy.path = last'.name
                   /\ copy.path # self.path
                   /\ DOMAIN copy.doc.profiles = {name}
                   /\ copy.doc.active_profile_name = name
                   /\ copy.doc.profiles[name].name = name
                   /\ copy.doc.profiles[name].store_type
                        = self.doc.profiles[name].store_type
                   /\ copy.doc.profiles[name].service_url
                        = Replace(self.doc.profiles[name].service_url,
                                  self.path,
                                  IF last'.arg = None THEN copy.path
                                  ELSE last'.arg)
                   /\ copy.doc.user_id = self.doc.user_id
                   /\ stored = Serialize(copy.doc) ]_vars

\* A configuration with the profiles "default" and "p1" was exported for a
\* container image: the copy holds "default" only, with the URL rewritten.
C33_Witness ==
    /\ last.op = "copy_config_with_active_profile"
    /\ last.res = "ok"
    /\ last.arg = "image"
    /\ DOMAIN configs[SingletonId].doc.profiles = {DEFAULT_PROFILE_NAME, "p1"}
    /\ DOMAIN configs["x1"].doc.profiles = {DEFAULT_PROFILE_NAME}
    /\ configs["x1"].doc.profiles[DEFAULT_PROFILE_NAME].service_url
         = <<"file", "image", "profiles", DEFAULT_PROFILE_NAME>>
    /\ configs["x1"].doc.user_id = configs[SingletonId].doc.user_id

(***************************************************************************)
(* C34: the first Repository() of a process that returns holds the store   *)
(* of the profile that is active then; every later Repository() of the     *)
(* process returns, and it and every other call of the process, the        *)
(* activation of another profile included, leave the singleton and the     *)
(* store it holds as they are.                                             *)
(***************************************************************************)
C34_RepositoryBoundAtFirstConstruction ==
    [][ /\ (last'.op = "Repository" /\ ~global_repository
              /\ last'.res = "ok") =>
            LET doc == configs'[SingletonId].doc
                profile == doc.profiles[doc.active_profile_name]
            IN  /\ global_repository'
                /\ instances'.repository =
                     <<[type |-> profile.store_type,
                        url |-> profile.service_url]>>
        /\ (last'.op = "Repository" /\ global_repository) =>
            last'.res = "ok"
        /\ (global_repository /\ last'.op # "exit") =>
            /\ global_repository'
            /\ instances'.repository = instances.repository ]_vars

\* Repository() returned the singleton on the store of the default
\* profile after "p1", on another store, was made the active profile.
C34_Witness ==
    /\ last.op = "Repository"
    /\ last.res = "ok"
    /\ global_repository
    /\ configs[SingletonId].doc.active_profile_name = "p1"
    /\ "p1" \in DOMAIN configs[SingletonId].doc.profiles
    /\ configs[SingletonId].doc.profiles["p1"].service_url
         = <<"sqlite", "p1.db">>
    /\ instances.repository =
         <<[type |-> "local",
            url |-> GetLocalUrl("local", DefaultConfigDirectory,
                                DEFAULT_PROFILE_NAME)]>>

(***************************************************************************)
(* C35: the command `profile set NAME` is all-or-nothing.  When it ends    *)
(* with an exception, the active profile name of the configuration and of  *)
(* its document are what they were when the command started; when NAME     *)
(* was the active profile name already, the document is not written.       *)
(***************************************************************************)
C35_SetActiveProfileAllOrNothing ==
    [][ (last'.op = "set_active_profile" /\ SingletonId \in DOMAIN configs) =>
          LET before == configs[SingletonId].doc.active_profile_name
              stored == ReadConfig(W(EmptyFn), DefaultConfigDirectory)
                          .active_profile_name
          IN  /\ last'.res # "ok" =>
                   /\ configs'[SingletonId].doc.active_profile_name = before
                   /\ ReadConfig(WNext, DefaultConfigDirectory)
                        .active_profile_name = stored
              /\ before = last'.name =>
                   /\ last'.writes = 0
                   /\ config_files' = config_files ]_vars

(***************************************************************************)
(* C36: create_store, called for a profile by the initialization of a new  *)
(* profile or by the first Repository(), uses the profile's URL when it    *)
(* has one and the local URL of the profile's directory when it has none;  *)
(* a store is constructed only of the class of the profile's store type,   *)
(* on that URL, and only when the class accepts the URL; when the class    *)
(* rejects it the call raises ValueError and no store, and no Repository,  *)
(* is there.  A call that does not reach create_store constructs no store. *)
(***************************************************************************)
C36_CreateStoreValidates ==
    [][ (last'.op \in {"add_or_update_profile", "Repository"}
           /\ SingletonId \in DOMAIN configs) =>
          LET doc == configs[SingletonId].doc
              called == IF last'.op = "Repository"
                        THEN ~global_repository /\ ActiveProfileResolves(doc)
                        ELSE last'.initialized
              profile == IF last'.op = "Repository"
                         THEN doc.profiles[doc.active_profile_name]
                         ELSE last'.arg
              url == IF profile.service_url = NoUrl
                     THEN GetLocalUrl(profile.store_type,
                                      configs[SingletonId].path, profile.name)
                     ELSE profile.service_url
              valid == IF profile.store_type = "local"
                       THEN LocalIsValidUrl(url, instances'.dirs)
                       ELSE SqlIsValidUrl(url)
          IN  /\ ~called => last'.store = << >>
              /\ called =>
                   /\ last'.store # << >> =>
                        /\ valid
                        /\ last'.res = "ok"
                        /\ last'.store = <<[type |-> profile.store_type,
                                            url |-> url]>>
                   /\ ~valid =>
                        /\ last'.res = "ValueError"
                        /\ last'.store = << >>
                        /\ last'.op = "Repository" => ~global_repository'
                        /\ last'.op = "add_or_update_profile" =>
                             configs' = configs ]_vars

\* The first Repository() of a process found the active profile "p1" with
\* a URL that names no directory: ValueError, and no Repository singleton.
C36_Witness ==
    /\ last.op = "Repository"
    /\ last.res = "ValueError"
    /\ last.store = << >>
    /\ ~global_repository
    /\ configs[SingletonId].doc.active_profile_name = "p1"
    /\ configs[SingletonId].doc.profiles["p1"].service_url
         = <<"file", "missing">>

(***************************************************************************)
(* C37: the map a successful register_stack returns has one entry per      *)
(* component of the stack passed in, keyed by the component's type, whose  *)
(* value is the flavor of the component as passed, also where the store    *)
(* holds that component under another flavor.                              *)
(***************************************************************************)
C37_RegisterStackMetadata ==
    [][ (last'.op = "register_stack" /\ last'.res = "ok") =>
          LET components == last'.stack.components
          IN  /\ DOMAIN last'.metadata =
                   { components[i].type : i \in 1..Len(components) }
              /\ Cardinality(DOMAIN last'.metadata) = Len(components)
              /\ \A i \in 1..Len(components) :
                   last'.metadata[components[i].type] = components[i].flavor
      ]_vars

\* A stack of two components was registered; its orchestrator was passed
\* with flavor "f2" while the store holds it, from an earlier
\* registration, with flavor "f1": the map says "f2".
C37_Witness ==
    /\ last.op = "register_stack"
    /\ last.res = "ok"
    /\ Len(last.stack.components) = 2
    /\ \E i \in 1..2 :
         /\ last.stack.components[i].type = "orchestrator"
         /\ last.stack.components[i].flavor = "f2"
    /\ last.metadata["orchestrator"] = "f2"
    /\ GetStackComponent(St, "orchestrator", "c1").res = "ok"
    /\ GetStackComponent(St, "orchestrator", "c1").component.flavor = "f1"

====
